---- MODULE Spec2Model ----
(***************************************************************************)
(* Bloc Superpowers: the keyed guards of `mix` (nonReentrant, sequential,  *)
(* fresh, throttle, debounce), the run of a mix call (retry, catchError,   *)
(* observer, isWaiting/isFailed) and the optimisticSync protocol, as the   *)
(* documentation pages of the site describe them.  Time is a discrete      *)
(* clock `now`; a Duration is a number of ticks.  Calls are numbered in    *)
(* the order they are made (nextId), so "call order" is the order of the   *)
(* ids.                                                                    *)
(***************************************************************************)
EXTENDS Integers, Sequences, FiniteSets, TLC

\* ---- bounds of the model ----
MaxCalls == 4
MaxTime == 3
\* dispatches of mix in flight at the same time
MaxInFlight == 2

Keys == {"k1", "k2"}
CallIds == 1..MaxCalls

\* `null` of an optional configuration value (maxQueueSize: null, queueTimeout: null)
Null == 0 - 1

VARIABLES
    now,            \* the clock
    nextId,         \* id of the next call to be made
    nrKeys,         \* nonReentrant: keys that are held by a running call
    nrExec,         \* nonReentrant: key -> calls whose action is executing
    nrAborted,      \* nonReentrant: calls that were aborted
    seqMaxQueueSize,\* sequential(maxQueueSize: ...)
    seqDropOldest,  \* sequential(dropOldest: ...)
    seqQueueTimeout,\* sequential(queueTimeout: ...)
    seqExec,        \* sequential: key -> calls whose action is executing
    seqQueue,       \* sequential: key -> waiting calls [id, enqueuedAt], oldest first
    seqStartLog,    \* sequential: key -> the calls in the order their actions started
    seqRejected,    \* sequential: calls dropped because the queue was full
    seqEvicted,     \* sequential: waiting calls superseded by dropOldest
    seqTimedOut,    \* sequential: waiting calls discarded by queueTimeout
    seqDequeued,    \* sequential: waiting calls that were started when their turn came
    seqLastCall,    \* sequential: the last call made and its SequentialContext
    syncValue,      \* optimisticSync: key -> the value in the state
    syncLocked,     \* optimisticSync: keys whose lock is held
    syncInFlight,   \* optimisticSync: key -> values of the requests in flight
    syncFinishing,  \* optimisticSync: key -> onFinish calls not yet run ("ok"/"error")
    syncSentCount,  \* optimisticSync: key -> number of requests sent so far
    syncLastSent,   \* optimisticSync: key -> value of the last request sent
    syncCallCount,  \* optimisticSync: key -> number of calls made so far
    syncLastCall,   \* optimisticSync: key -> value the last call asked to apply
    syncDuring,     \* optimisticSync: key -> calls made since the request in flight was sent
    syncLastDone,   \* optimisticSync: key -> what the last successful completion saw and did
    freshMap,       \* fresh: key -> expiry of the fresh period (Null: no entry)
    freshRuns,      \* fresh: the dispatches whose action is executing
    freshSkipped,   \* fresh: calls skipped because the key was fresh
    freshLastOk,    \* fresh: key -> time of the last successful completion (Null: none)
    freshLastCall,  \* fresh: the last call made
    freshLastEnd,   \* fresh: the last dispatch that settled
    thrRemoveLockOnError, \* throttle(removeLockOnError: ...)
    thrLock,        \* throttle: key -> time the lock expires (Null: no lock)
    thrRuns,        \* throttle: the dispatches whose action is executing
    thrAborted,     \* throttle: the aborted calls
    thrLastStart,   \* throttle: key -> time the last executed call started (Null: none)
    thrLastCall,    \* throttle: the last call made
    thrLastEnd,     \* throttle: the last executed call that completed
    dbPending,      \* debounce: key -> the call whose timer is pending (id 0: none)
    dbCalls,        \* debounce: key -> the calls made [id, at], in call order
    dbLog,          \* debounce: key -> the executions [id, at], in order
    dbSuperseded,   \* debounce: calls whose timer was cancelled by a newer call
    runRetry,       \* mix: the retry configuration in force
    runVia,         \* mix: "mix" (mix with a MixConfig) or "preset" (a MixPreset call)
    runHandlers,    \* mix: what each catchError / globalCatchError does
    runs,           \* mix: the dispatches that started and have not settled
    runWaiting,     \* mix: key -> number of dispatches in flight (isWaiting)
    runFailed,      \* mix: key -> the error recorded for the key (isFailed)
    runLast,        \* mix: what the last step of a dispatch did
    pshValue,       \* optimisticSyncWithPush: key -> the value in the state
    pshLocalRev,    \* optimisticSyncWithPush: key -> the local revision
    pshServerRev,   \* optimisticSyncWithPush: key -> server revision kept in the state (-1: unknown)
    pshLocked,      \* optimisticSyncWithPush: keys whose lock is held
    pshInFlight,    \* optimisticSyncWithPush: key -> the requests in flight [value, rev]
    pshLastWasPush, \* optimisticSyncWithPush: key -> the last change of the value came from a push
    pshFinishing,   \* optimisticSyncWithPush: key -> onFinish calls not yet run ("ok"/"error")
    pshLastEnd,     \* optimisticSyncWithPush: what the last request that completed saw and did
    pshLastPush,    \* serverPush: the last push received and what became of it
    cmdValue,       \* optimisticCommand: the value in the state
    cmdKeys,        \* optimisticCommand: the non-reentrant keys held by a running command
    cmdRuns,        \* optimisticCommand: the commands that are running
    cmdLastCall,    \* optimisticCommand: the last call made
    cmdLastEnd,     \* optimisticCommand: the last command the server answered
    cfgExplicit,    \* configuration: the retry fields given at the call site
    cfgNamed,       \* configuration: the retry fields of the MixConfig or MixPreset
    cfgResolved,    \* configuration: the resolved retry configuration of the call
    netOnline,      \* checkInternet: the device has internet connectivity
    netAbortSilently, \* checkInternet(abortSilently: ...)
    netMaxRetryDelay, \* checkInternet(maxRetryDelay: ...), in ticks
    pipeUses,       \* dispatch pipeline: the guards the method uses
    pipeRuns,       \* dispatch pipeline: the calls whose action is executing
    pipeLast        \* dispatch pipeline: what the last call met in the pipeline

clockVars == <<now, nextId>>
nrVars == <<nrKeys, nrExec, nrAborted>>
seqCfg == <<seqMaxQueueSize, seqDropOldest, seqQueueTimeout>>
seqVars == <<seqCfg, seqExec, seqQueue, seqStartLog, seqRejected, seqEvicted, seqTimedOut,
             seqDequeued, seqLastCall>>
syncVars == <<syncValue, syncLocked, syncInFlight, syncFinishing, syncSentCount,
              syncLastSent, syncCallCount, syncLastCall, syncDuring, syncLastDone>>
freshVars == <<freshMap, freshRuns, freshSkipped, freshLastOk, freshLastCall, freshLastEnd>>
thrVars == <<thrRemoveLockOnError, thrLock, thrRuns, thrAborted, thrLastStart, thrLastCall,
            thrLastEnd>>
dbVars == <<dbPending, dbCalls, dbLog, dbSuperseded>>
runCfg == <<runRetry, runVia, runHandlers>>
runVars == <<runCfg, runs, runWaiting, runFailed, runLast>>
pshVars == <<pshValue, pshLocalRev, pshServerRev, pshLocked, pshInFlight, pshLastWasPush,
             pshFinishing, pshLastEnd, pshLastPush>>
cmdVars == <<cmdValue, cmdKeys, cmdRuns, cmdLastCall, cmdLastEnd>>
cfgVars == <<cfgExplicit, cfgNamed, cfgResolved>>
netVars == <<netOnline, netAbortSilently, netMaxRetryDelay>>
pipeVars == <<pipeUses, pipeRuns, pipeLast>>
vars == <<clockVars, nrVars, seqVars, syncVars, freshVars, thrVars, dbVars, runVars, pshVars,
          cmdVars, cfgVars, netVars, pipeVars>>

\* what each component leaves alone
\* (a call guarded by nonReentrant, sequential or throttle is also a run of
\* mix: these three leave the run of mix to the action that uses them)
nrOthers == <<seqVars, syncVars, freshVars, thrVars, dbVars, pshVars,
    cmdVars, cfgVars, netVars, pipeVars>>
seqOthers == <<nrVars, syncVars, freshVars, thrVars, dbVars, pshVars,
    cmdVars, cfgVars, netVars, pipeVars>>
syncOthers == <<nrVars, seqVars, freshVars, thrVars, dbVars, runVars, pshVars,
    cmdVars, cfgVars, netVars, pipeVars>>
freshOthers == <<nrVars, seqVars, syncVars, thrVars, dbVars, runVars, pshVars,
    cmdVars, cfgVars, netVars, pipeVars>>
thrOthers == <<nrVars, seqVars, syncVars, freshVars, dbVars, pshVars,
    cmdVars, cfgVars, netVars, pipeVars>>
dbOthers == <<nrVars, seqVars, syncVars, freshVars, thrVars, runVars, pshVars,
    cmdVars, cfgVars, netVars, pipeVars>>
runOthers == <<nrVars, seqVars, syncVars, freshVars, thrVars, dbVars, pshVars,
    cmdVars, cfgVars, netVars, pipeVars>>
pshOthers == <<nrVars, seqVars, syncVars, freshVars, thrVars, dbVars, runVars,
    cmdVars, cfgVars, netVars, pipeVars>>
cmdOthers == <<nrVars, seqVars, syncVars, freshVars, thrVars, dbVars, runVars, pshVars,
    cfgVars, netVars, pipeVars>>
cfgOthers == <<nrVars, seqVars, syncVars, freshVars, thrVars, dbVars, runVars, pshVars,
    cmdVars, netVars, pipeVars>>
netOthers == <<nrVars, seqVars, syncVars, freshVars, thrVars, dbVars, pshVars,
    cmdVars, cfgVars, pipeVars>>
pipeOthers == <<syncVars, runVars, pshVars, cmdVars, cfgVars, netVars>>
clockOthers == <<nrVars, seqVars, syncVars, freshVars, thrVars, dbVars, runVars, pshVars,
    cmdVars, cfgVars, netVars, pipeVars>>

\* ---- the clock ----
ClockInit ==
    /\ now = 0
    /\ nextId = 1

Tick ==
    /\ now < MaxTime
    /\ now' = now + 1
    /\ UNCHANGED <<nextId, clockOthers>>

\* ---- nonReentrant ----
NRInit ==
    /\ nrKeys = {}
    /\ nrExec = [k \in Keys |-> {}]
    /\ nrAborted = {}

\* a variant of the guard that never finds the key held
NRBusyUnchecked(k) == k \notin Keys

\* a variant of the guard that finds the key held only while an attempt of
\* its call is executing, not between two attempts
NRBusyWhileRunning(k) == k \in nrKeys /\ \E r \in runs : r.key = k /\ r.phase = "running"

\* the guard: a call made while the key is held is aborted
NRBusy(k) == k \in nrKeys

NRCall(k) ==
    /\ nextId <= MaxCalls
    /\ nextId' = nextId + 1
    /\ IF NRBusy(k)
         THEN /\ nrAborted' = nrAborted \cup {nextId}
              /\ UNCHANGED <<nrKeys, nrExec>>
         ELSE /\ nrKeys' = nrKeys \cup {k}
              /\ nrExec' = [nrExec EXCEPT ![k] = @ \cup {nextId}]
              /\ UNCHANGED nrAborted
    /\ UNCHANGED <<now, nrOthers>>

\* the running call settles (success or failure): the key is released
NRSettle(k, id) ==
    /\ id \in nrExec[k]
    /\ nrExec' = [nrExec EXCEPT ![k] = @ \ {id}]
    /\ nrKeys' = nrKeys \ {k}
    /\ UNCHANGED <<nrAborted, clockVars, nrOthers>>

NextNR ==
    \/ \E k \in Keys : NRCall(k) /\ UNCHANGED runVars
    \/ \E k \in Keys, id \in CallIds : NRSettle(k, id) /\ UNCHANGED runVars

\* ---- sequential ----
SeqInit ==
    /\ seqMaxQueueSize \in {Null, 1, 2}
    /\ seqDropOldest \in BOOLEAN
    /\ seqQueueTimeout \in {Null, 1}
    /\ seqExec = [k \in Keys |-> {}]
    /\ seqQueue = [k \in Keys |-> <<>>]
    /\ seqStartLog = [k \in Keys |-> <<>>]
    /\ seqRejected = {}
    /\ seqEvicted = {}
    /\ seqTimedOut = {}
    /\ seqDequeued = {}
    /\ seqLastCall = [id |-> 0, key |-> "k1", wasQueued |-> FALSE, index |-> 0]

\* sequential with its default options
SeqDefaults ==
    /\ seqMaxQueueSize = Null
    /\ seqDropOldest = FALSE
    /\ seqQueueTimeout = Null

\* no call of the key is running
SeqIdle(k) == seqExec[k] = {}

\* a variant that lets one call more wait
SeqFullOneMore(k) == seqMaxQueueSize # Null /\ Len(seqQueue[k]) > seqMaxQueueSize

\* maxQueueSize calls are already waiting
SeqFull(k) == seqMaxQueueSize # Null /\ Len(seqQueue[k]) >= seqMaxQueueSize

\* a variant that discards a call that has waited exactly queueTimeout
SeqExpiredAtDeadline(item) ==
    seqQueueTimeout # Null /\ now - item.enqueuedAt >= seqQueueTimeout

\* the call has waited in the queue longer than queueTimeout
SeqExpired(item) == seqQueueTimeout # Null /\ now - item.enqueuedAt > seqQueueTimeout

\* the waiting calls left once the timed-out ones at the front are discarded
RECURSIVE SeqSkipExpired(_)
SeqSkipExpired(q) ==
    IF q = <<>> THEN q
    ELSE IF SeqExpired(Head(q)) THEN SeqSkipExpired(Tail(q))
    ELSE q

SeqIds(q) == {q[i].id : i \in 1..Len(q)}

\* a variant that forgets the calls that keep waiting
SeqDequeueForgetful(q) == [next |-> Head(q), rest |-> <<>>]

\* a variant that takes the newest waiting call first
SeqDequeueNewest(q) == [next |-> q[Len(q)], rest |-> SubSeq(q, 1, Len(q) - 1)]

\* the call that runs next and the calls that keep waiting
SeqDequeue(q) == [next |-> Head(q), rest |-> Tail(q)]

\* a variant of dropOldest that supersedes the newest waiting call
SeqEvictNewest(q, item) ==
    [evicted |-> q[Len(q)].id, queue |-> Append(SubSeq(q, 1, Len(q) - 1), item)]

\* dropOldest: the oldest waiting call is superseded, the new call waits last
SeqEvict(q, item) == [evicted |-> Head(q).id, queue |-> Append(Tail(q), item)]

\* a variant in which a call that waits is always told it did not
SeqWasQueuedNever(idle) == FALSE

\* SequentialContext.wasQueued: the call had to wait
SeqWasQueued(idle) == ~idle

\* a variant that counts positions among the waiting calls from 0
SeqIndexFromZero(idle, q) == IF idle THEN 0 ELSE Len(q) - 1

\* SequentialContext.index of a call: 0 if it executed immediately, else
\* its position in the queue q it was added to (1: one call was ahead)
SeqIndex(idle, q) == IF idle THEN 0 ELSE Len(q)

SeqCall(k) ==
    /\ nextId <= MaxCalls
    /\ nextId' = nextId + 1
    /\ LET item == [id |-> nextId, enqueuedAt |-> now] IN
       IF SeqIdle(k)
         THEN /\ seqExec' = [seqExec EXCEPT ![k] = @ \cup {nextId}]
              /\ seqStartLog' = [seqStartLog EXCEPT ![k] = Append(@, nextId)]
              /\ UNCHANGED <<seqQueue, seqRejected, seqEvicted>>
         ELSE IF ~SeqFull(k)
           THEN /\ seqQueue' = [seqQueue EXCEPT ![k] = Append(@, item)]
                /\ UNCHANGED <<seqExec, seqStartLog, seqRejected, seqEvicted>>
           ELSE IF seqDropOldest
             THEN /\ seqEvicted' = seqEvicted \cup {SeqEvict(seqQueue[k], item).evicted}
                  /\ seqQueue' = [seqQueue EXCEPT ![k] = SeqEvict(seqQueue[k], item).queue]
                  /\ UNCHANGED <<seqExec, seqStartLog, seqRejected>>
             ELSE /\ seqRejected' = seqRejected \cup {nextId}
                  /\ UNCHANGED <<seqExec, seqStartLog, seqQueue, seqEvicted>>
    /\ seqLastCall' = [id |-> nextId, key |-> k, wasQueued |-> SeqWasQueued(SeqIdle(k)),
                       index |-> SeqIndex(SeqIdle(k), seqQueue'[k])]
    /\ UNCHANGED <<now, seqCfg, seqTimedOut, seqDequeued, seqOthers>>

\* the running call settles (success or failure): the queue advances
SeqSettle(k, id) ==
    /\ id \in seqExec[k]
    /\ LET live == SeqSkipExpired(seqQueue[k]) IN
       /\ seqTimedOut' = seqTimedOut \cup (SeqIds(seqQueue[k]) \ SeqIds(live))
       /\ IF live = <<>>
            THEN /\ seqExec' = [seqExec EXCEPT ![k] = @ \ {id}]
                 /\ seqQueue' = [seqQueue EXCEPT ![k] = <<>>]
                 /\ UNCHANGED <<seqStartLog, seqDequeued>>
            ELSE LET d == SeqDequeue(live) IN
                 /\ seqExec' = [seqExec EXCEPT ![k] = (@ \ {id}) \cup {d.next.id}]
                 /\ seqQueue' = [seqQueue EXCEPT ![k] = d.rest]
                 /\ seqStartLog' = [seqStartLog EXCEPT ![k] = Append(@, d.next.id)]
                 /\ seqDequeued' = seqDequeued \cup {d.next.id}
    /\ UNCHANGED <<clockVars, seqCfg, seqRejected, seqEvicted, seqLastCall, seqOthers>>

NextSeq ==
    \/ \E k \in Keys : SeqCall(k) /\ UNCHANGED runVars
    \/ \E k \in Keys, id \in CallIds : SeqSettle(k, id) /\ UNCHANGED runVars

\* ---- optimisticSync ----
Values == 0..2

SyncInit ==
    /\ syncValue = [k \in Keys |-> 0]
    /\ syncLocked = {}
    /\ syncInFlight = [k \in Keys |-> <<>>]
    /\ syncFinishing = [k \in Keys |-> <<>>]
    /\ syncSentCount = [k \in Keys |-> 0]
    /\ syncLastSent = [k \in Keys |-> 0]
    /\ syncCallCount = [k \in Keys |-> 0]
    /\ syncLastCall = [k \in Keys |-> 0]
    /\ syncDuring = [k \in Keys |-> 0]
    /\ syncLastDone = [k \in Keys |-> [n |-> 0, sent |-> 0, current |-> 0, during |-> 0,
                                        followUp |-> FALSE, followUps |-> 0]]

\* a variant in which a call made while the key is locked is dropped
SyncOptimisticIfUnlocked(k, v) == IF k \in syncLocked THEN syncValue[k] ELSE v

\* the value the state of the key takes when a call asks to apply v
SyncOptimistic(k, v) == v

\* a variant that never finds the key locked
SyncIsLockedUnchecked(k) == k \notin Keys

\* a request of the key is in flight
SyncIsLocked(k) == k \in syncLocked

\* a variant in which the follow-up repeats the value of the request that completed
SyncFollowUpValueSent(k, sent) == sent

\* the value a follow-up request carries
SyncFollowUpValue(k, sent) == syncValue[k]

\* a variant that sends a follow-up only if calls were made during the request
SyncNeedsFollowUpIfCalled(k, sent) == syncDuring[k] > 0

\* the state changed while the request was in flight
SyncNeedsFollowUp(k, sent) == syncValue[k] # sent

\* a call of optimisticSync: valueToApply gives v
SyncCall(k, v) ==
    /\ nextId <= MaxCalls
    /\ nextId' = nextId + 1
    /\ syncValue' = [syncValue EXCEPT ![k] = SyncOptimistic(k, v)]
    /\ syncCallCount' = [syncCallCount EXCEPT ![k] = @ + 1]
    /\ syncLastCall' = [syncLastCall EXCEPT ![k] = v]
    /\ IF SyncIsLocked(k)
         THEN /\ syncDuring' = [syncDuring EXCEPT ![k] = @ + 1]
              /\ UNCHANGED <<syncLocked, syncInFlight, syncSentCount, syncLastSent>>
         ELSE /\ syncLocked' = syncLocked \cup {k}
              /\ syncInFlight' = [syncInFlight EXCEPT ![k] = Append(@, syncValue'[k])]
              /\ syncSentCount' = [syncSentCount EXCEPT ![k] = @ + 1]
              /\ syncLastSent' = [syncLastSent EXCEPT ![k] = syncValue'[k]]
              /\ syncDuring' = [syncDuring EXCEPT ![k] = 0]
    /\ UNCHANGED <<now, syncFinishing, syncLastDone, syncOthers>>

\* a variant that applies the server response after every successful request
SyncAppliedAlways(k, again, resp) == IF resp # Null THEN resp ELSE syncValue[k]

\* the state value after a successful request: applyServerResponseToState is
\* used only when the state is stable (no follow-up), on a non-null response
SyncApplied(k, again, resp) == IF ~again /\ resp # Null THEN resp ELSE syncValue[k]

\* a variant in which a failed request keeps the lock
SyncLockAfterFailureKept(k) == syncLocked

\* the locks after a request of key k failed: the lock of k is released
SyncLockAfterFailure(k) == syncLocked \ {k}

\* sendValueToServer returns: resp is the value the server returned, or Null
SyncSucceed(k, resp) ==
    /\ syncInFlight[k] # <<>>
    /\ LET sent == Head(syncInFlight[k])
           again == SyncNeedsFollowUp(k, sent) IN
       /\ syncLastDone' = [syncLastDone EXCEPT ![k] =
              [n |-> @.n + 1, sent |-> sent, current |-> syncValue[k],
               during |-> syncDuring[k], followUp |-> again,
               followUps |-> IF again THEN @.followUps + 1 ELSE @.followUps]]
       /\ syncValue' = [syncValue EXCEPT ![k] = SyncApplied(k, again, resp)]
       /\ IF again
            THEN LET v == SyncFollowUpValue(k, sent) IN
                 /\ syncInFlight' = [syncInFlight EXCEPT ![k] = Append(Tail(@), v)]
                 /\ syncSentCount' = [syncSentCount EXCEPT ![k] = @ + 1]
                 /\ syncLastSent' = [syncLastSent EXCEPT ![k] = v]
                 /\ syncDuring' = [syncDuring EXCEPT ![k] = 0]
                 /\ UNCHANGED <<syncLocked, syncFinishing>>
            ELSE /\ syncInFlight' = [syncInFlight EXCEPT ![k] = Tail(@)]
                 /\ syncLocked' = syncLocked \ {k}
                 /\ syncFinishing' = [syncFinishing EXCEPT ![k] = Append(@, "ok")]
                 /\ UNCHANGED <<syncSentCount, syncLastSent, syncDuring>>
    /\ UNCHANGED <<clockVars, syncCallCount, syncLastCall, syncOthers>>

\* sendValueToServer throws: the lock is released and onFinish gets the error
SyncFail(k) ==
    /\ syncInFlight[k] # <<>>
    /\ syncInFlight' = [syncInFlight EXCEPT ![k] = Tail(@)]
    /\ syncLocked' = SyncLockAfterFailure(k)
    /\ syncFinishing' = [syncFinishing EXCEPT ![k] = Append(@, "error")]
    /\ UNCHANGED <<clockVars, syncValue, syncSentCount, syncLastSent, syncCallCount,
                   syncLastCall, syncDuring, syncLastDone, syncOthers>>

\* onFinish runs after the lock was released; a non-null state it returns is applied
SyncOnFinish(k, r) ==
    /\ syncFinishing[k] # <<>>
    /\ syncFinishing' = [syncFinishing EXCEPT ![k] = Tail(@)]
    /\ syncValue' = [syncValue EXCEPT ![k] = IF r # Null THEN r ELSE @]
    /\ UNCHANGED <<clockVars, syncLocked, syncInFlight, syncSentCount, syncLastSent,
                   syncCallCount, syncLastCall, syncDuring, syncLastDone, syncOthers>>

NextSync ==
    \/ \E k \in Keys, v \in Values : SyncCall(k, v)
    \/ \E k \in Keys, resp \in Values \cup {Null} : SyncSucceed(k, resp)
    \/ \E k \in Keys : SyncFail(k)
    \/ \E k \in Keys, r \in Values \cup {Null} : SyncOnFinish(k, r)


\* ---- fresh ----
\* freshFor, in ticks
FreshFor == 2

FreshInit ==
    /\ freshMap = [k \in Keys |-> Null]
    /\ freshRuns = {}
    /\ freshSkipped = {}
    /\ freshLastOk = [k \in Keys |-> Null]
    /\ freshLastCall = [id |-> 0, key |-> "k1", ran |-> FALSE, forced |-> FALSE]
    /\ freshLastEnd = [id |-> 0, key |-> "k1", ok |-> TRUE, prev |-> Null, overtaken |-> FALSE]

\* a variant in which an entry stays fresh for ever
FreshIsFreshForever(k) == freshMap[k] # Null

\* the key has an entry whose fresh period has not ended
FreshIsFresh(k) == freshMap[k] # Null /\ now < freshMap[k]

\* the expiry written by a call that completes successfully at time t
FreshExpiry(t) == t + FreshFor

\* a variant in which a failure starts a fresh period, as a success does
FreshAfterFailureCommit(cur, prev, changed) == FreshExpiry(now)

\* a variant that always restores the entry of the start of the dispatch
FreshAfterFailureRestore(cur, prev, changed) == prev

\* the entry after a failure: the entry of the start of the dispatch (none if
\* there was none), unless another call of the key finished meanwhile and
\* changed it, then that newer entry
FreshAfterFailure(cur, prev, changed) == IF changed THEN cur ELSE prev

\* a call of a method that uses fresh; force is ignoreFresh
FreshCall(k, force) ==
    /\ nextId <= MaxCalls
    /\ nextId' = nextId + 1
    /\ IF ~force /\ FreshIsFresh(k)
         THEN /\ freshSkipped' = freshSkipped \cup {nextId}
              /\ freshLastCall' = [id |-> nextId, key |-> k, ran |-> FALSE, forced |-> force]
              /\ UNCHANGED freshRuns
         ELSE /\ freshRuns' = freshRuns \cup
                    {[id |-> nextId, key |-> k, prev |-> freshMap[k], overtaken |-> FALSE]}
              /\ freshLastCall' = [id |-> nextId, key |-> k, ran |-> TRUE, forced |-> force]
              /\ UNCHANGED freshSkipped
    /\ UNCHANGED <<now, freshMap, freshLastOk, freshLastEnd, freshOthers>>

\* the method completes successfully: a new fresh period starts
FreshSucceed(r) ==
    /\ r \in freshRuns
    /\ freshMap' = [freshMap EXCEPT ![r.key] = FreshExpiry(now)]
    /\ freshRuns' = {IF o.key = r.key THEN [o EXCEPT !.overtaken = TRUE] ELSE o :
                        o \in freshRuns \ {r}}
    /\ freshLastOk' = [freshLastOk EXCEPT ![r.key] = now]
    /\ freshLastEnd' = [id |-> r.id, key |-> r.key, ok |-> TRUE, prev |-> r.prev,
                        overtaken |-> r.overtaken]
    /\ UNCHANGED <<clockVars, freshSkipped, freshLastCall, freshOthers>>

\* the method throws: the freshness is rolled back
FreshFail(r) ==
    /\ r \in freshRuns
    /\ freshMap' = [freshMap EXCEPT ![r.key] = FreshAfterFailure(@, r.prev, r.overtaken)]
    /\ freshRuns' = freshRuns \ {r}
    /\ freshLastEnd' = [id |-> r.id, key |-> r.key, ok |-> FALSE, prev |-> r.prev,
                        overtaken |-> r.overtaken]
    /\ UNCHANGED <<clockVars, freshSkipped, freshLastOk, freshLastCall, freshOthers>>

NextFresh ==
    \/ \E k \in Keys, force \in BOOLEAN : FreshCall(k, force)
    \/ \E r \in freshRuns : FreshSucceed(r)
    \/ \E r \in freshRuns : FreshFail(r)
    \/ Tick


\* ---- throttle ----
\* duration of the throttle period, in ticks
ThrottleDuration == 2

ThrottleInit ==
    /\ thrRemoveLockOnError \in BOOLEAN
    /\ thrLock = [k \in Keys |-> Null]
    /\ thrRuns = {}
    /\ thrAborted = {}
    /\ thrLastStart = [k \in Keys |-> Null]
    /\ thrLastCall = [id |-> 0, key |-> "k1", ran |-> FALSE, forced |-> FALSE, prevStart |-> Null]
    /\ thrLastEnd = [id |-> 0, key |-> "k1", ok |-> TRUE]

\* throttle with its default options
ThrottleDefaults == thrRemoveLockOnError = FALSE

\* a variant in which the key is locked only while its action is executing
ThrottleIsLockedWhileRunning(k) == \E r \in thrRuns : r.key = k

\* the key has a lock whose throttle period has not expired
ThrottleIsLocked(k) == thrLock[k] # Null /\ now < thrLock[k]

\* a call of a method that uses throttle; force is ignoreThrottle
ThrottleCall(k, force) ==
    /\ nextId <= MaxCalls
    /\ nextId' = nextId + 1
    /\ thrLastCall' = [id |-> nextId, key |-> k, ran |-> force \/ ~ThrottleIsLocked(k),
                       forced |-> force, prevStart |-> thrLastStart[k]]
    /\ IF ~force /\ ThrottleIsLocked(k)
         THEN /\ thrAborted' = thrAborted \cup
                    {[id |-> nextId, running |-> \E r \in thrRuns : r.key = k]}
              /\ UNCHANGED <<thrLock, thrRuns, thrLastStart>>
         ELSE /\ thrLock' = [thrLock EXCEPT ![k] = now + ThrottleDuration]
              /\ thrRuns' = thrRuns \cup {[id |-> nextId, key |-> k]}
              /\ thrLastStart' = [thrLastStart EXCEPT ![k] = now]
              /\ UNCHANGED thrAborted
    /\ UNCHANGED <<now, thrRemoveLockOnError, thrLastEnd, thrOthers>>

\* the method completes successfully: the lock stays until it expires
ThrottleSucceed(r) ==
    /\ r \in thrRuns
    /\ thrRuns' = thrRuns \ {r}
    /\ thrLastEnd' = [id |-> r.id, key |-> r.key, ok |-> TRUE]
    /\ UNCHANGED <<clockVars, thrRemoveLockOnError, thrLock, thrAborted, thrLastStart,
                   thrLastCall, thrOthers>>

\* a variant in which a failure never touches the lock
ThrottleLockAfterFailureKept(k) == thrLock

\* the locks after the method of key k throws: the lock of k is removed if
\* removeLockOnError, else it stays
ThrottleLockAfterFailure(k) ==
    IF thrRemoveLockOnError THEN [thrLock EXCEPT ![k] = Null] ELSE thrLock

\* the method throws
ThrottleFail(r) ==
    /\ r \in thrRuns
    /\ thrRuns' = thrRuns \ {r}
    /\ thrLock' = ThrottleLockAfterFailure(r.key)
    /\ thrLastEnd' = [id |-> r.id, key |-> r.key, ok |-> FALSE]
    /\ UNCHANGED <<clockVars, thrRemoveLockOnError, thrAborted, thrLastStart,
                   thrLastCall, thrOthers>>

NextThrottle ==
    \/ \E k \in Keys, force \in BOOLEAN : ThrottleCall(k, force) /\ UNCHANGED runVars
    \/ \E r \in thrRuns : ThrottleSucceed(r) /\ UNCHANGED runVars
    \/ \E r \in thrRuns : ThrottleFail(r) /\ UNCHANGED runVars
    \/ Tick


\* ---- debounce ----
\* duration of the debounce wait, in ticks
DebounceDuration == 2

\* no call is waiting
DebounceNone == [id |-> 0, at |-> 0, due |-> 0]

DebounceInit ==
    /\ dbPending = [k \in Keys |-> DebounceNone]
    /\ dbCalls = [k \in Keys |-> <<>>]
    /\ dbLog = [k \in Keys |-> <<>>]
    /\ dbSuperseded = {}

\* a variant in which a new call leaves the running wait as it is
DebounceDueKept(k, t) ==
    IF dbPending[k].id # 0 THEN dbPending[k].due ELSE t + DebounceDuration

\* the time the wait of a call made at time t ends: every call starts the wait anew
DebounceDue(k, t) == t + DebounceDuration

\* the wait of the key has run out
DebounceReady(k) == dbPending[k].id # 0 /\ now >= dbPending[k].due

\* a call of a method that uses debounce: it replaces the call that was
\* waiting (a call made at the instant a wait runs out comes after the timer)
DebounceCall(k) ==
    /\ nextId <= MaxCalls
    /\ ~DebounceReady(k)
    /\ nextId' = nextId + 1
    /\ dbSuperseded' = IF dbPending[k].id # 0 THEN dbSuperseded \cup {dbPending[k].id}
                       ELSE dbSuperseded
    /\ dbPending' = [dbPending EXCEPT ![k] =
                        [id |-> nextId, at |-> now, due |-> DebounceDue(k, now)]]
    /\ dbCalls' = [dbCalls EXCEPT ![k] = Append(@, [id |-> nextId, at |-> now])]
    /\ UNCHANGED <<now, dbLog, dbOthers>>

\* the wait ran out with no new call: the method of the waiting call executes
DebounceFire(k) ==
    /\ DebounceReady(k)
    /\ dbLog' = [dbLog EXCEPT ![k] = Append(@, [id |-> dbPending[k].id, at |-> now])]
    /\ dbPending' = [dbPending EXCEPT ![k] = DebounceNone]
    /\ UNCHANGED <<clockVars, dbCalls, dbSuperseded, dbOthers>>

\* time passes once every timer that ran out has fired
DebounceTick == Tick /\ \A k \in Keys : ~DebounceReady(k)

NextDebounce ==
    \/ \E k \in Keys : DebounceCall(k)
    \/ \E k \in Keys : DebounceFire(k)
    \/ DebounceTick


\* ---- the run of a mix call: retry, catchError, observer, isWaiting, isFailed ----
\* no error
NoError == [src |-> 0, attempt |-> 0, by |-> "none"]

\* the error thrown by attempt a (counted from 0) of the action of dispatch id
ActionError(id, a) == [src |-> id, attempt |-> a, by |-> "action"]

\* the catchError of the call site, the catchError of the reusable
\* configuration (MixConfig or preset), and Superpowers.globalCatchError
HandlerNames == {"callSite", "reusable", "global"}

\* what a handler does with the error it gets: it is not defined ("none"), it
\* returns normally, it throws the error it got, or it throws another error
Behaviours == {"none", "suppress", "rethrow", "wrap"}

\* the default retry parameters, in milliseconds
RetryDefaults == [maxRetries |-> 3, initialDelay |-> 350, multiplier |-> 2, maxDelay |-> 5000]

\* no retry: one attempt
RetryNone == [maxRetries |-> 0, initialDelay |-> 1, multiplier |-> 2, maxDelay |-> 1]

\* retry.unlimited, delays in ticks
RetryUnlimited == [maxRetries |-> Null, initialDelay |-> 1, multiplier |-> 2, maxDelay |-> 2]

\* the retry parameters of the model, delays in ticks
RetryConfigs ==
    {RetryNone,
     [maxRetries |-> 2, initialDelay |-> 1, multiplier |-> 2, maxDelay |-> 2],
     [maxRetries |-> 3, initialDelay |-> 1, multiplier |-> 2, maxDelay |-> 1]}

RECURSIVE Pow(_, _)
Pow(b, e) == IF e = 0 THEN 1 ELSE b * Pow(b, e - 1)

Min(a, b) == IF a <= b THEN a ELSE b

\* a variant without maxDelay
RetryDelayUncapped(r, a) == r.initialDelay * Pow(r.multiplier, a)

\* the delay before the retry that follows failed attempt a
RetryDelay(r, a) == Min(r.initialDelay * Pow(r.multiplier, a), r.maxDelay)

\* a variant that retries once more
RetryMoreInclusive(r, a) == r.maxRetries = Null \/ a <= r.maxRetries

\* attempt a failed: is there a retry left?  (maxRetries Null: retry.unlimited)
RetryMore(r, a) == r.maxRetries = Null \/ a < r.maxRetries

\* a variant that gives up with the error of the first attempt
RetrySurfacedFirst(errs) == errs[1]

\* the error of a dispatch that failed for good: the last one
RetrySurfaced(errs) == errs[Len(errs)]

\* a variant that runs the reusable catchError first everywhere
HandlerOrderReusableFirst(via) == <<"reusable", "callSite", "global">>

\* a variant that runs the catchError of the call first everywhere
HandlerOrderCallSiteFirst(via) == <<"callSite", "reusable", "global">>

\* the order in which the handlers get the error
HandlerOrder(via) ==
    IF via = "preset" THEN <<"reusable", "callSite", "global">>
    ELSE <<"callSite", "reusable", "global">>

\* the error a handler throws
HandlerThrows(h, b, e) == IF b = "rethrow" THEN e ELSE [e EXCEPT !.by = h]

\* the handlers in `order` get error e in turn: what is left of the error
\* (NoError if a handler returned normally) and which handler got what
RECURSIVE RunHandlers(_, _, _)
RunHandlers(order, e, called) ==
    IF order = <<>> THEN [out |-> e, called |-> called]
    ELSE LET h == Head(order)
             b == runHandlers[h] IN
         IF b = "none" THEN RunHandlers(Tail(order), e, called)
         ELSE IF b = "suppress"
           THEN [out |-> NoError, called |-> Append(called, [h |-> h, err |-> e])]
         ELSE RunHandlers(Tail(order), HandlerThrows(h, b, e),
                          Append(called, [h |-> h, err |-> e]))

\* a variant in which the observer sees the start of every attempt
ObserverStartsOnAny(a) == a >= 0

\* the observer is called with isStart=true when attempt a starts
ObserverStartsOn(a) == a = 0

NoEvent ==
    [kind |-> "none", id |-> 0, key |-> "k1", attempt |-> 0, ok |-> TRUE, invoked |-> 0,
     errs |-> <<>>, surfaced |-> NoError, called |-> <<>>, out |-> NoError,
     obsStarts |-> 0, obsEnds |-> 0, obsError |-> NoError, wait |-> 0, began |-> 0,
     dirty |-> FALSE, cleared |-> NoError]

RunInit ==
    /\ runRetry \in RetryConfigs
    /\ runVia \in {"mix", "preset"}
    /\ runHandlers \in [HandlerNames -> Behaviours]
    /\ runs = {}
    /\ runWaiting = [k \in Keys |-> 0]
    /\ runFailed = [k \in Keys |-> NoError]
    /\ runLast = NoEvent

\* plain mix: no retry, no catchError anywhere
RunDefaults ==
    /\ runRetry = RetryNone
    /\ runVia = "mix"
    /\ runHandlers = [h \in HandlerNames |-> "none"]

IsWaiting(k) == runWaiting[k] > 0

IsFailed(k) == runFailed[k] # NoError

\* a dispatch that starts executing
NewRun(id, k) ==
    [id |-> id, key |-> k, attempt |-> 0, phase |-> "running", wake |-> 0, failedAt |-> 0,
     errs |-> <<>>, invoked |-> 1, obs |-> IF ObserverStartsOn(0) THEN 1 ELSE 0,
     dirty |-> FALSE]

RunIds(rs) == {r.id : r \in rs}

WaitingBegun(w, k) == [w EXCEPT ![k] = @ + 1]

\* a variant in which the key stops waiting as soon as one dispatch settles
WaitingEndedCleared(w, k) == [w EXCEPT ![k] = 0]

\* a dispatch of the key settled
WaitingEnded(w, k) == [w EXCEPT ![k] = @ - 1]

\* a variant in which a dispatch that starts leaves the recorded error
FailedBegunKept(f, k) == f

\* the error of the key is cleared when a dispatch of the key starts executing
FailedBegun(f, k) == [f EXCEPT ![k] = NoError]

\* a dispatch of the key settled with `out` left of its error
FailedEnded(f, k, out) == IF out = NoError THEN f ELSE [f EXCEPT ![k] = out]

\* a variant in which an aborted call clears the recorded error
FailedRejectedCleared(f, k) == [f EXCEPT ![k] = NoError]

\* an aborted call does not execute: the error of the key is what it was
FailedRejected(f, k) == f

\* the dispatches of key k in flight when one of them failed
RunsMarked(rs, k, out) ==
    IF out = NoError THEN rs
    ELSE {IF o.key = k THEN [o EXCEPT !.dirty = TRUE] ELSE o : o \in rs}

\* the call starts executing: the observer gets the start, the key waits,
\* the error recorded for the key is cleared
RunBegin(k, id) ==
    /\ Cardinality(runs) < MaxInFlight
    /\ runs' = runs \cup {NewRun(id, k)}
    /\ runWaiting' = WaitingBegun(runWaiting, k)
    /\ runFailed' = FailedBegun(runFailed, k)
    /\ runLast' = [NoEvent EXCEPT !.kind = "start", !.id = id, !.key = k, !.invoked = 1,
                                  !.obsStarts = NewRun(id, k).obs, !.began = id,
                                  !.cleared = runFailed[k]]
    /\ UNCHANGED runCfg

\* the call is aborted by a guard: it returns without executing
RunRejected(k, id) ==
    /\ runFailed' = FailedRejected(runFailed, k)
    /\ runLast' = [NoEvent EXCEPT !.kind = "reject", !.id = id, !.key = k]
    /\ UNCHANGED <<runCfg, runs, runWaiting>>

\* the call waits in the sequential queue: nothing has started yet
RunQueued(k, id) ==
    /\ runLast' = [NoEvent EXCEPT !.kind = "queued", !.id = id, !.key = k]
    /\ UNCHANGED <<runCfg, runs, runWaiting, runFailed>>

\* dispatch r settles, with success (ok) or with the failure of its current
\* attempt as its last one; the calls in nxt (of the same key) start in the
\* same step.  An error goes through the handlers; what is left of it is
\* recorded for the key.  The observer gets the end; the pages do not say
\* whether it is given the error before or after the handlers.
RunSettle(r, ok, nxt) ==
    LET k == r.key
        errs == IF ok THEN r.errs ELSE Append(r.errs, ActionError(r.id, r.attempt))
        err == IF ok THEN NoError ELSE RetrySurfaced(errs)
        res == IF ok THEN [out |-> NoError, called |-> <<>>]
               ELSE RunHandlers(HandlerOrder(runVia), err, <<>>)
        ended == FailedEnded(runFailed, k, res.out)
        waits == WaitingEnded(runWaiting, k)
    IN
    /\ runs' = RunsMarked(runs \ {r}, k, res.out) \cup {NewRun(n, k) : n \in nxt}
    /\ runWaiting' = IF nxt = {} THEN waits ELSE WaitingBegun(waits, k)
    /\ runFailed' = IF nxt = {} THEN ended ELSE FailedBegun(ended, k)
    /\ \E oe \in {err, res.out} :
          runLast' = [NoEvent EXCEPT !.kind = "end", !.id = r.id, !.key = k,
                          !.attempt = r.attempt, !.ok = ok, !.invoked = r.invoked,
                          !.errs = errs, !.surfaced = err, !.called = res.called,
                          !.out = res.out, !.obsStarts = r.obs, !.obsEnds = 1,
                          !.obsError = oe, !.dirty = r.dirty,
                          !.cleared = IF nxt = {} THEN NoError ELSE ended[k],
                          !.began = IF nxt = {} THEN 0 ELSE CHOOSE n \in nxt : TRUE]
    /\ UNCHANGED runCfg

\* a call of a method wrapped in mix, with no guard
RunCall(k) ==
    /\ nextId <= MaxCalls
    /\ nextId' = nextId + 1
    /\ RunBegin(k, nextId)
    /\ UNCHANGED <<now, runOthers>>

\* the current attempt of the action returns
RunSucceed(r) ==
    /\ r.phase = "running"
    /\ RunSettle(r, TRUE, {})
    /\ UNCHANGED <<clockVars, runOthers>>

\* the current attempt of the action throws: a retry is scheduled if one is
\* left, else the dispatch has failed
RunFail(r) ==
    /\ r.phase = "running"
    /\ IF RetryMore(runRetry, r.attempt)
         THEN /\ runs' = (runs \ {r}) \cup
                    {[r EXCEPT !.phase = "backoff",
                               !.errs = Append(@, ActionError(r.id, r.attempt)),
                               !.failedAt = now,
                               !.wake = now + RetryDelay(runRetry, r.attempt)]}
              /\ runLast' = [NoEvent EXCEPT !.kind = "backoff", !.id = r.id, !.key = r.key,
                                            !.attempt = r.attempt, !.invoked = r.invoked]
              /\ UNCHANGED <<runCfg, runWaiting, runFailed>>
         ELSE RunSettle(r, FALSE, {})
    /\ UNCHANGED <<clockVars, runOthers>>

\* the delay is over: the next attempt starts
RunRetry(r) ==
    /\ r.phase = "backoff"
    /\ now >= r.wake
    /\ runs' = (runs \ {r}) \cup
          {[r EXCEPT !.phase = "running", !.attempt = @ + 1, !.invoked = @ + 1,
                     !.obs = @ + (IF ObserverStartsOn(r.attempt + 1) THEN 1 ELSE 0),
                     !.wake = 0, !.failedAt = 0]}
    /\ runLast' = [NoEvent EXCEPT !.kind = "retry", !.id = r.id, !.key = r.key,
                                  !.attempt = r.attempt + 1, !.invoked = r.invoked + 1,
                                  !.wait = now - r.failedAt]
    /\ UNCHANGED <<clockVars, runCfg, runWaiting, runFailed, runOthers>>

\* time passes once every retry that is due has started
RunTick == Tick /\ \A r \in runs : r.phase = "backoff" => now < r.wake

NextRun ==
    \/ \E k \in Keys : RunCall(k)
    \/ \E r \in runs : RunSucceed(r)
    \/ \E r \in runs : RunFail(r)
    \/ \E r \in runs : RunRetry(r)
    \/ RunTick

\* mix calls without retry
NextPlain ==
    \/ \E k \in Keys : RunCall(k)
    \/ \E r \in runs : RunSucceed(r)
    \/ \E r \in runs : RunFail(r)

\* ---- mix calls with checkInternet ----
\* the ConnectionException thrown for attempt a of dispatch id
ConnectionError(id, a) == [src |-> id, attempt |-> a, by |-> "connection"]

\* internet is on, the defaults of checkInternet
NetIdle ==
    /\ netOnline = TRUE
    /\ netAbortSilently = FALSE
    /\ netMaxRetryDelay = 1

\* any connectivity, any checkInternet options; abortSilently is used
\* without retry
NetInit ==
    /\ netOnline \in BOOLEAN
    /\ netAbortSilently \in BOOLEAN
    /\ netMaxRetryDelay \in {1, 2}
    /\ netAbortSilently => runRetry = RetryNone

\* a variant of the check that never aborts silently
NetOutcomeLoud(online, silent) == IF online THEN "run" ELSE "fail"

\* what the check before an attempt decides: the action is executed, the
\* call is aborted silently, or the attempt fails with a ConnectionException
NetOutcome(online, silent) ==
    IF online THEN "run" ELSE IF silent THEN "abort" ELSE "fail"

\* a variant that waits as after a failure of the action
NetDelayAsRetry(r, a) == Min(r.initialDelay * Pow(r.multiplier, a), r.maxDelay)

\* the delay before the retry that follows attempt a when it failed for lack
\* of internet: capped by maxRetryDelay, whatever maxDelay is
NetDelay(r, a) == Min(r.initialDelay * Pow(r.multiplier, a), netMaxRetryDelay)

\* the internet goes off or comes back
NetSwitch ==
    /\ netOnline' = ~netOnline
    /\ UNCHANGED <<netAbortSilently, netMaxRetryDelay, clockVars, runVars, netOthers>>

\* the dispatch fails for good with a ConnectionException for attempt a; r
\* is its record, if it has one
NetGiveUp(k, id, a, invoked, errs, rs) ==
    LET err == ConnectionError(id, a)
        res == RunHandlers(HandlerOrder(runVia), err, <<>>) IN
    /\ runs' = RunsMarked(runs \ rs, k, res.out)
    /\ runFailed' = FailedEnded(IF rs = {} THEN FailedBegun(runFailed, k) ELSE runFailed,
                                k, res.out)
    /\ runWaiting' = IF rs = {} THEN runWaiting ELSE WaitingEnded(runWaiting, k)
    /\ runLast' = [NoEvent EXCEPT !.kind = "end", !.id = id, !.key = k, !.attempt = a,
                                  !.ok = FALSE, !.invoked = invoked,
                                  !.errs = Append(errs, err), !.surfaced = err,
                                  !.called = res.called, !.out = res.out,
                                  !.cleared = IF rs = {} THEN runFailed[k] ELSE NoError]
    /\ UNCHANGED runCfg

\* a call of a method that uses checkInternet
NetCall(k) ==
    /\ nextId <= MaxCalls
    /\ nextId' = nextId + 1
    /\ LET what == NetOutcome(netOnline, netAbortSilently) IN
       IF what = "run" THEN RunBegin(k, nextId)
       ELSE IF what = "abort" THEN RunRejected(k, nextId)
       ELSE IF RetryMore(runRetry, 0)
         THEN /\ Cardinality(runs) < MaxInFlight
              /\ runs' = runs \cup
                    {[NewRun(nextId, k) EXCEPT
                         !.phase = "backoff", !.invoked = 0,
                         !.errs = <<ConnectionError(nextId, 0)>>,
                         !.failedAt = now, !.wake = now + NetDelay(runRetry, 0)]}
              /\ runWaiting' = WaitingBegun(runWaiting, k)
              /\ runFailed' = FailedBegun(runFailed, k)
              /\ runLast' = [NoEvent EXCEPT !.kind = "offline", !.id = nextId, !.key = k,
                                            !.cleared = runFailed[k]]
              /\ UNCHANGED runCfg
         ELSE NetGiveUp(k, nextId, 0, 0, <<>>, {})
    /\ UNCHANGED <<now, netVars, netOthers>>

\* the delay is over: connectivity is checked again, and the next attempt
\* starts or fails without invoking the action
NetRetry(r) ==
    /\ r.phase = "backoff"
    /\ now >= r.wake
    /\ IF NetOutcome(netOnline, netAbortSilently) = "run"
         THEN RunRetry(r)
         ELSE /\ IF RetryMore(runRetry, r.attempt + 1)
                   THEN /\ runs' = (runs \ {r}) \cup
                              {[r EXCEPT !.attempt = @ + 1,
                                         !.errs = Append(@, ConnectionError(r.id, r.attempt + 1)),
                                         !.failedAt = now,
                                         !.wake = now + NetDelay(runRetry, r.attempt + 1)]}
                        /\ runLast' = [NoEvent EXCEPT !.kind = "offline", !.id = r.id,
                                                      !.key = r.key, !.attempt = r.attempt + 1,
                                                      !.invoked = r.invoked,
                                                      !.wait = now - r.failedAt]
                        /\ UNCHANGED <<runCfg, runWaiting, runFailed>>
                   ELSE NetGiveUp(r.key, r.id, r.attempt + 1, r.invoked, r.errs, {r})
              /\ UNCHANGED <<clockVars, runOthers>>

NextNet ==
    \/ \E k \in Keys : NetCall(k)
    \/ \E r \in runs : NetRetry(r)
    \/ \E r \in runs : RunSucceed(r)
    \/ \E r \in runs : RunFail(r)
    \/ NetSwitch
    \/ RunTick

\* ---- the dispatch pipeline: a method that uses several guards ----
PipeGuards == {"fresh", "nonReentrant", "throttle", "debounce", "sequential"}

\* a variant in which the throttle is applied first
PipeOrderThrottleFirst == <<"throttle", "fresh", "nonReentrant", "debounce", "sequential">>

\* the order in which the guards are applied to a call
PipeOrder == <<"fresh", "nonReentrant", "throttle", "debounce", "sequential">>

\* the place of guard g in the pipeline
PipeIndex(g) == CHOOSE i \in 1..Len(PipeOrder) : PipeOrder[i] = g

PipeNoCall == [step |-> "none", id |-> 0, key |-> "k1", stop |-> "none", passed |-> {}]

\* no method uses the pipeline
PipeIdle ==
    /\ pipeUses = {}
    /\ pipeRuns = {}
    /\ pipeLast = PipeNoCall

\* the method uses any of the guards
PipeInit ==
    /\ pipeUses \in SUBSET PipeGuards
    /\ pipeRuns = {}
    /\ pipeLast = PipeNoCall

\* the logs of the single guards, which the pipeline does not keep
pipeLogs == <<nrExec, nrAborted, seqCfg, seqStartLog, seqRejected, seqEvicted, seqTimedOut,
              seqDequeued, seqLastCall, freshRuns, freshSkipped, freshLastOk, freshLastCall,
              freshLastEnd, thrRemoveLockOnError, thrRuns, thrAborted, thrLastStart,
              thrLastCall, thrLastEnd, dbCalls, dbLog, dbSuperseded>>

\* guard g stops a call of key k; debounce stops no call, it makes it wait
PipeStops(g, k) ==
    CASE g = "fresh" -> FreshIsFresh(k)
      [] g = "nonReentrant" -> NRBusy(k)
      [] g = "throttle" -> ThrottleIsLocked(k)
      [] g = "debounce" -> FALSE
      [] g = "sequential" -> ~SeqIdle(k) /\ SeqFull(k) /\ ~seqDropOldest

\* what a call of key k meets from place i of the pipeline on: the guards it
\* passes, and the guard that stops it ("wait": it waits for the debounce
\* timer, "none": it went through)
RECURSIVE PipeScan(_, _, _)
PipeScan(order, k, i) ==
    IF i > Len(order) THEN [passed |-> {}, stop |-> "none"]
    ELSE IF order[i] \notin pipeUses THEN PipeScan(order, k, i + 1)
    ELSE IF PipeStops(order[i], k) THEN [passed |-> {}, stop |-> order[i]]
    ELSE IF order[i] = "debounce" THEN [passed |-> {"debounce"}, stop |-> "wait"]
    ELSE LET rest == PipeScan(order, k, i + 1) IN
         [passed |-> rest.passed \cup {order[i]}, stop |-> rest.stop]

\* call id of key k passes the guards s.passed: nonReentrant takes the key
\* (a call stopped further on gives it back; held: it took it in an earlier
\* step), throttle sets the lock, sequential starts the call or puts it in
\* the queue.  A call that went through executes, unless it is queued.
PipeAdmit(step, k, id, s, held) ==
    /\ nrKeys' = IF s.stop \in {"none", "wait"}
                   THEN IF "nonReentrant" \in s.passed THEN nrKeys \cup {k} ELSE nrKeys
                   ELSE IF held THEN nrKeys \ {k} ELSE nrKeys
    /\ thrLock' = IF "throttle" \in s.passed
                    THEN [thrLock EXCEPT ![k] = now + ThrottleDuration]
                    ELSE thrLock
    /\ IF "sequential" \in s.passed
         THEN LET item == [id |-> id, enqueuedAt |-> now] IN
              IF SeqIdle(k)
                THEN /\ seqExec' = [seqExec EXCEPT ![k] = @ \cup {id}]
                     /\ UNCHANGED seqQueue
                ELSE /\ seqQueue' = [seqQueue EXCEPT ![k] =
                            IF SeqFull(k) THEN SeqEvict(@, item).queue ELSE Append(@, item)]
                     /\ UNCHANGED seqExec
         ELSE UNCHANGED <<seqExec, seqQueue>>
    /\ pipeRuns' = IF s.stop = "none" /\ ("sequential" \notin s.passed \/ SeqIdle(k))
                     THEN pipeRuns \cup {[id |-> id, key |-> k, prev |-> freshMap[k],
                                          overtaken |-> FALSE]}
                     ELSE pipeRuns
    /\ pipeLast' = [step |-> step, id |-> id, key |-> k, stop |-> s.stop, passed |-> s.passed]
    /\ UNCHANGED <<freshMap, pipeUses, pipeLogs, pipeOthers>>

\* a call of the method: the guards are applied in order, up to the one that
\* stops the call or to the debounce timer, which the call starts anew
PipeCall(k) ==
    /\ nextId <= MaxCalls
    /\ Cardinality(pipeRuns) < MaxInFlight
    /\ ~DebounceReady(k)
    /\ nextId' = nextId + 1
    /\ LET s == PipeScan(PipeOrder, k, 1) IN
       /\ PipeAdmit("call", k, nextId, s, FALSE)
       /\ dbPending' = IF "debounce" \in s.passed
                         THEN [dbPending EXCEPT ![k] =
                                 [id |-> nextId, at |-> now, due |-> DebounceDue(k, now)]]
                         ELSE dbPending
    /\ UNCHANGED now

\* the debounce timer of key k runs out: the waiting call goes on with the
\* guards that come after debounce
PipeFire(k) ==
    /\ DebounceReady(k)
    /\ Cardinality(pipeRuns) < MaxInFlight
    /\ LET s == PipeScan(PipeOrder, k, PipeIndex("debounce") + 1) IN
       PipeAdmit("fire", k, dbPending[k].id, s,
                 "nonReentrant" \in pipeUses
                    /\ PipeIndex("nonReentrant") < PipeIndex("debounce"))
    /\ dbPending' = [dbPending EXCEPT ![k] = DebounceNone]
    /\ UNCHANGED clockVars

\* the action of call r completes (ok) or throws: fresh writes or rolls back
\* the entry, throttle keeps or removes the lock, nonReentrant releases the
\* key, sequential starts the next waiting call
PipeSettle(r, ok) ==
    LET k == r.key
        live == SeqSkipExpired(seqQueue[k])
        nxt == IF "sequential" \in pipeUses /\ live # <<>>
               THEN {SeqDequeue(live).next.id} ELSE {}
        entry == IF "fresh" \notin pipeUses THEN freshMap[k]
                 ELSE IF ok THEN FreshExpiry(now)
                 ELSE FreshAfterFailure(freshMap[k], r.prev, r.overtaken)
    IN
    /\ r \in pipeRuns
    /\ freshMap' = [freshMap EXCEPT ![k] = entry]
    /\ nrKeys' = IF "nonReentrant" \in pipeUses /\ nxt = {} THEN nrKeys \ {k} ELSE nrKeys
    /\ thrLock' = IF "throttle" \in pipeUses /\ ~ok THEN ThrottleLockAfterFailure(k)
                  ELSE thrLock
    /\ seqExec' = IF "sequential" \in pipeUses
                    THEN [seqExec EXCEPT ![k] = (@ \ {r.id}) \cup nxt]
                    ELSE seqExec
    /\ seqQueue' = IF "sequential" \in pipeUses
                     THEN [seqQueue EXCEPT ![k] =
                             IF live = <<>> THEN <<>> ELSE SeqDequeue(live).rest]
                     ELSE seqQueue
    /\ pipeRuns' = {IF o.key = k /\ ok /\ "fresh" \in pipeUses
                      THEN [o EXCEPT !.overtaken = TRUE] ELSE o : o \in pipeRuns \ {r}}
                   \cup {[id |-> n, key |-> k, prev |-> entry, overtaken |-> FALSE] : n \in nxt}
    /\ pipeLast' = [PipeNoCall EXCEPT !.step = "end", !.id = r.id, !.key = k]
    /\ UNCHANGED <<clockVars, dbPending, pipeUses, pipeLogs, pipeOthers>>

NextPipe ==
    \/ \E k \in Keys : PipeCall(k)
    \/ \E k \in Keys : PipeFire(k)
    \/ \E r \in pipeRuns, ok \in BOOLEAN : PipeSettle(r, ok)
    \/ DebounceTick

\* ---- mix calls that use a guard ----
GuardedNRCall(k) ==
    /\ NRCall(k)
    /\ IF NRBusy(k) THEN RunRejected(k, nextId) ELSE RunBegin(k, nextId)

GuardedNRSettle(k, id, ok) ==
    /\ NRSettle(k, id)
    /\ \E r \in runs : r.id = id /\ RunSettle(r, ok, {})

GuardedSeqCall(k) ==
    /\ SeqCall(k)
    /\ IF SeqIdle(k) THEN RunBegin(k, nextId)
       ELSE IF ~SeqFull(k) \/ seqDropOldest THEN RunQueued(k, nextId)
       ELSE RunRejected(k, nextId)

\* the running call settles and the next waiting call, if any, starts
GuardedSeqSettle(k, id, ok) ==
    /\ SeqSettle(k, id)
    /\ \E r \in runs : r.id = id /\ RunSettle(r, ok, seqExec'[k] \ seqExec[k])

GuardedThrottleCall(k) ==
    /\ ThrottleCall(k, FALSE)
    /\ IF ThrottleIsLocked(k) THEN RunRejected(k, nextId) ELSE RunBegin(k, nextId)

GuardedThrottleSucceed(t) ==
    /\ ThrottleSucceed(t)
    /\ \E r \in runs : r.id = t.id /\ RunSettle(r, TRUE, {})

GuardedThrottleFail(t) ==
    /\ ThrottleFail(t)
    /\ \E r \in runs : r.id = t.id /\ RunSettle(r, FALSE, {})

NextGuarded ==
    \/ \E k \in Keys : GuardedNRCall(k)
    \/ \E k \in Keys, id \in CallIds, ok \in BOOLEAN : GuardedNRSettle(k, id, ok)
    \/ \E k \in Keys : GuardedSeqCall(k)
    \/ \E k \in Keys, id \in CallIds, ok \in BOOLEAN : GuardedSeqSettle(k, id, ok)
    \/ \E k \in Keys : GuardedThrottleCall(k)
    \/ \E t \in thrRuns : GuardedThrottleSucceed(t)
    \/ \E t \in thrRuns : GuardedThrottleFail(t)
    \/ Tick

\* ---- mix calls that use a guard and retry ----
\* a variant in which the guard is told of every failed attempt
RunFinalAny(id, ok) == \E r \in runs : r.id = id /\ r.phase = "running"

\* the running attempt of dispatch id is its last one: it succeeds, or it
\* fails with no retry left
RunFinal(id, ok) ==
    \E r \in runs : r.id = id /\ r.phase = "running" /\ (ok \/ ~RetryMore(runRetry, r.attempt))

\* the running attempt throws and a retry is left: the call is still running
\* for its guard
GuardedRetryFail(r) == RetryMore(runRetry, r.attempt) /\ RunFail(r)

\* the call settles for good: the key is released
NRRetrySettle(k, id, ok) == RunFinal(id, ok) /\ GuardedNRSettle(k, id, ok)

\* the call settles for good: the queue advances
SeqRetrySettle(k, id, ok) == RunFinal(id, ok) /\ GuardedSeqSettle(k, id, ok)

NextNRRetry ==
    \/ \E k \in Keys : GuardedNRCall(k)
    \/ \E k \in Keys, id \in CallIds, ok \in BOOLEAN : NRRetrySettle(k, id, ok)
    \/ \E r \in runs : GuardedRetryFail(r)
    \/ \E r \in runs : RunRetry(r)
    \/ RunTick

NextSeqRetry ==
    \/ \E k \in Keys : GuardedSeqCall(k)
    \/ \E k \in Keys, id \in CallIds, ok \in BOOLEAN : SeqRetrySettle(k, id, ok)
    \/ \E r \in runs : GuardedRetryFail(r)
    \/ \E r \in runs : RunRetry(r)
    \/ RunTick

\* ---- optimisticSyncWithPush and serverPush ----
\* a pushed update or an optimistic value: liked or not liked
PushValues == {0, 1}

\* the revisions the server gives out
ServerRevs == 0..2

PushNoRequest == [key |-> "k1", ok |-> TRUE, rev |-> 0, sent |-> 0, followUp |-> FALSE]

PushNoPush == [id |-> 0, key |-> "k1", rev |-> 0, value |-> 0, accepted |-> FALSE]

PushInit ==
    /\ pshValue = [k \in Keys |-> 0]
    /\ pshLocalRev = [k \in Keys |-> 0]
    /\ pshServerRev = [k \in Keys |-> Null]
    /\ pshLocked = {}
    /\ pshInFlight = [k \in Keys |-> {}]
    /\ pshLastWasPush = [k \in Keys |-> FALSE]
    /\ pshFinishing = [k \in Keys |-> <<>>]
    /\ pshLastEnd = PushNoRequest
    /\ pshLastPush = PushNoPush

\* a variant that compares values, as optimisticSync does
PushNeedsFollowUpByValue(k, req) == ~pshLastWasPush[k] /\ req.value # pshValue[k]

\* a variant that does not look at where the last change came from
PushNeedsFollowUpDespitePush(k, req) == req.rev < pshLocalRev[k]

\* request req of key k completed: a follow-up is needed if the last change
\* was not from a push and the revision of the request is behind the local one
PushNeedsFollowUp(k, req) == ~pshLastWasPush[k] /\ req.rev < pshLocalRev[k]

\* a variant that takes every push
PushMayAcceptAny(known, rev) == TRUE

\* a push with an older server revision than the one known is out of order
PushMayAccept(known, rev) == rev >= known

\* a push with a newer server revision than the one known is applied
PushMustAccept(known, rev) == rev > known

\* the server revision kept after informServerRevision(rev): the latest known
PushInformed(known, rev) == IF rev > known THEN rev ELSE known

\* a call of optimisticSyncWithPush: valueToApply gives v
PushSyncCall(k, v) ==
    /\ nextId <= MaxCalls
    /\ nextId' = nextId + 1
    /\ pshValue' = [pshValue EXCEPT ![k] = v]
    /\ pshLocalRev' = [pshLocalRev EXCEPT ![k] = @ + 1]
    /\ pshLastWasPush' = [pshLastWasPush EXCEPT ![k] = FALSE]
    /\ IF k \in pshLocked
         THEN UNCHANGED <<pshLocked, pshInFlight>>
         ELSE /\ pshLocked' = pshLocked \cup {k}
              /\ pshInFlight' = [pshInFlight EXCEPT ![k] =
                                    @ \cup {[value |-> v, rev |-> pshLocalRev[k] + 1]}]
    /\ UNCHANGED <<now, pshServerRev, pshFinishing, pshLastEnd, pshLastPush, pshOthers>>

\* sendValueToServer returns resp after informServerRevision(rev)
PushSyncSucceed(k, req, rev, resp) ==
    /\ req \in pshInFlight[k]
    /\ LET again == PushNeedsFollowUp(k, req)
           stale == rev < pshServerRev[k] IN
       /\ pshServerRev' = [pshServerRev EXCEPT ![k] = PushInformed(@, rev)]
       /\ pshLastEnd' = [key |-> k, ok |-> TRUE, rev |-> req.rev, sent |-> req.value,
                         followUp |-> again]
       /\ IF again
            THEN /\ pshInFlight' = [pshInFlight EXCEPT ![k] =
                        (@ \ {req}) \cup {[value |-> pshValue[k], rev |-> pshLocalRev[k]]}]
                 /\ UNCHANGED <<pshValue, pshLocked, pshFinishing>>
            ELSE /\ pshInFlight' = [pshInFlight EXCEPT ![k] = @ \ {req}]
                 /\ pshLocked' = pshLocked \ {k}
                 /\ pshValue' = [pshValue EXCEPT ![k] =
                                    IF resp # Null /\ ~stale THEN resp ELSE @]
                 /\ pshFinishing' = [pshFinishing EXCEPT ![k] = Append(@, "ok")]
    /\ UNCHANGED <<clockVars, pshLocalRev, pshLastWasPush, pshLastPush, pshOthers>>

\* sendValueToServer throws: the lock is released and onFinish gets the error
PushSyncFail(k, req) ==
    /\ req \in pshInFlight[k]
    /\ pshInFlight' = [pshInFlight EXCEPT ![k] = @ \ {req}]
    /\ pshLocked' = pshLocked \ {k}
    /\ pshFinishing' = [pshFinishing EXCEPT ![k] = Append(@, "error")]
    /\ pshLastEnd' = [key |-> k, ok |-> FALSE, rev |-> req.rev, sent |-> req.value,
                      followUp |-> FALSE]
    /\ UNCHANGED <<clockVars, pshValue, pshLocalRev, pshServerRev, pshLastWasPush,
                   pshLastPush, pshOthers>>

\* onFinish runs after the lock was released; a non-null state it returns is applied
PushSyncOnFinish(k, r) ==
    /\ pshFinishing[k] # <<>>
    /\ pshFinishing' = [pshFinishing EXCEPT ![k] = Tail(@)]
    /\ pshValue' = [pshValue EXCEPT ![k] = IF r # Null THEN r ELSE @]
    /\ UNCHANGED <<clockVars, pshLocalRev, pshServerRev, pshLocked, pshInFlight,
                   pshLastWasPush, pshLastEnd, pshLastPush, pshOthers>>

\* serverPush: a push for key k with server revision rev and value v arrives;
\* it is applied, and its revision saved, unless it is out of order (a push
\* with the revision already known may be taken or not)
ServerPush(k, rev, v) ==
    /\ nextId <= MaxCalls
    /\ nextId' = nextId + 1
    /\ \E accepted \in BOOLEAN :
          /\ accepted => PushMayAccept(pshServerRev[k], rev)
          /\ PushMustAccept(pshServerRev[k], rev) => accepted
          /\ pshLastPush' = [id |-> nextId, key |-> k, rev |-> rev, value |-> v,
                             accepted |-> accepted]
          /\ IF accepted
               THEN /\ pshValue' = [pshValue EXCEPT ![k] = v]
                    /\ pshServerRev' = [pshServerRev EXCEPT ![k] = rev]
                    /\ pshLastWasPush' = [pshLastWasPush EXCEPT ![k] = TRUE]
               ELSE UNCHANGED <<pshValue, pshServerRev, pshLastWasPush>>
    /\ UNCHANGED <<now, pshLocalRev, pshLocked, pshInFlight, pshFinishing,
                   pshLastEnd, pshOthers>>

NextPush ==
    \/ \E k \in Keys, v \in PushValues : PushSyncCall(k, v)
    \/ \E k \in Keys, rev \in ServerRevs, resp \in PushValues \cup {Null} :
          \E req \in pshInFlight[k] : PushSyncSucceed(k, req, rev, resp)
    \/ \E k \in Keys : \E req \in pshInFlight[k] : PushSyncFail(k, req)
    \/ \E k \in Keys, r \in PushValues \cup {Null} : PushSyncOnFinish(k, r)
    \/ \E k \in Keys, rev \in ServerRevs, v \in PushValues : ServerPush(k, rev, v)

\* ---- optimisticCommand ----
\* nonReentrantKey values (one per item); NoKey: the parameter is not given
ItemKeys == {"a", "b"}

NoKey == "none"

CmdNoCall == [id |-> 0, key |-> "k1", nrKey |-> NoKey, ran |-> FALSE]

CmdNoEnd == [id |-> 0, ok |-> TRUE, initial |-> 0, resp |-> Null, rolledBack |-> FALSE]

CmdInit ==
    /\ cmdValue = 0
    /\ cmdKeys = {}
    /\ cmdRuns = {}
    /\ cmdLastCall = CmdNoCall
    /\ cmdLastEnd = CmdNoEnd

\* a variant that protects the main key whatever nonReentrantKey says
CmdNonReentrantKeyMain(k, nk) == k

\* the key of the non-reentrant protection: nonReentrantKey if given, else key
CmdNonReentrantKey(k, nk) == IF nk = NoKey THEN k ELSE nk

\* a variant that always rolls back
CmdShouldRollbackAlways(current, initial, optimistic) == TRUE

\* the default shouldRollback: the state still holds the optimistic value
CmdShouldRollback(current, initial, optimistic) == current = optimistic

\* a call of optimisticCommand: optimisticValue gives v
CmdCall(k, nk, v) ==
    /\ nextId <= MaxCalls
    /\ nextId' = nextId + 1
    /\ LET held == CmdNonReentrantKey(k, nk) IN
       /\ (held \notin cmdKeys) => (Cardinality(cmdRuns) < MaxInFlight)
       /\ cmdLastCall' = [id |-> nextId, key |-> k, nrKey |-> nk, ran |-> held \notin cmdKeys]
       /\ IF held \in cmdKeys
            THEN UNCHANGED <<cmdValue, cmdKeys, cmdRuns>>
            ELSE /\ cmdKeys' = cmdKeys \cup {held}
                 /\ cmdRuns' = cmdRuns \cup
                       {[id |-> nextId, key |-> k, held |-> held, initial |-> cmdValue,
                         optimistic |-> v, phase |-> "sending"]}
                 /\ cmdValue' = v
    /\ UNCHANGED <<now, cmdLastEnd, cmdOthers>>

\* sendCommandToServer returns resp (Null: nothing to apply)
CmdSucceed(r, resp) ==
    /\ r \in cmdRuns
    /\ r.phase = "sending"
    /\ cmdRuns' = cmdRuns \ {r}
    /\ cmdKeys' = cmdKeys \ {r.held}
    /\ cmdValue' = IF resp # Null THEN resp ELSE cmdValue
    /\ cmdLastEnd' = [id |-> r.id, ok |-> TRUE, initial |-> r.initial, resp |-> resp,
                      rolledBack |-> FALSE]
    /\ UNCHANGED <<clockVars, cmdLastCall, cmdOthers>>

\* sendCommandToServer throws: rollback if it is safe, then reloadFromServer
\* if the call implements it (reloads)
CmdFail(r, reloads) ==
    /\ r \in cmdRuns
    /\ r.phase = "sending"
    /\ LET back == CmdShouldRollback(cmdValue, r.initial, r.optimistic) IN
       /\ cmdValue' = IF back THEN r.initial ELSE cmdValue
       /\ cmdLastEnd' = [id |-> r.id, ok |-> FALSE, initial |-> r.initial, resp |-> Null,
                         rolledBack |-> back]
    /\ IF reloads
         THEN /\ cmdRuns' = (cmdRuns \ {r}) \cup {[r EXCEPT !.phase = "reloading"]}
              /\ UNCHANGED cmdKeys
         ELSE /\ cmdRuns' = cmdRuns \ {r}
              /\ cmdKeys' = cmdKeys \ {r.held}
    /\ UNCHANGED <<clockVars, cmdLastCall, cmdOthers>>

\* reloadFromServer returns v: it is applied and the command is over
CmdReloaded(r, v) ==
    /\ r \in cmdRuns
    /\ r.phase = "reloading"
    /\ cmdRuns' = cmdRuns \ {r}
    /\ cmdKeys' = cmdKeys \ {r.held}
    /\ cmdValue' = v
    /\ UNCHANGED <<clockVars, cmdLastCall, cmdLastEnd, cmdOthers>>

NextCmd ==
    \/ \E k \in Keys, nk \in ItemKeys \cup {NoKey}, v \in Values : CmdCall(k, nk, v)
    \/ \E r \in cmdRuns, resp \in Values \cup {Null} : CmdSucceed(r, resp)
    \/ \E r \in cmdRuns, reloads \in BOOLEAN : CmdFail(r, reloads)
    \/ \E r \in cmdRuns, v \in Values : CmdReloaded(r, v)

\* ---- resolution of the configuration of a call ----
\* a field that is not given
Unset == 0 - 2

ConfigFields == {"maxRetries", "initialDelay", "multiplier", "maxDelay"}

\* what a call site or a MixConfig can say about a field
ConfigChoices == {Unset, 1, 7}

\* nothing given
ConfigNone == [f \in ConfigFields |-> Unset]

\* no call is being resolved
ConfigIdle ==
    /\ cfgExplicit = ConfigNone
    /\ cfgNamed = ConfigNone
    /\ cfgResolved = ConfigNone

\* a call with any explicit retry fields and any MixConfig, not yet resolved
ConfigInit ==
    /\ cfgExplicit \in [ConfigFields -> ConfigChoices]
    /\ cfgNamed \in [ConfigFields -> ConfigChoices]
    /\ cfgResolved = ConfigNone

\* a variant in which a modifier given at a higher level replaces the whole
\* modifier of the lower levels
ConfigMergeWhole(base, over) ==
    IF \E f \in ConfigFields : over[f] # Unset
      THEN [f \in ConfigFields |-> IF over[f] # Unset THEN over[f] ELSE RetryDefaults[f]]
      ELSE base

\* the values of `over` take priority over those of `base`, field by field
ConfigMerge(base, over) ==
    [f \in ConfigFields |-> IF over[f] # Unset THEN over[f] ELSE base[f]]

\* built-in defaults, then the config parameter, then the explicit
\* parameters (highest priority last)
ConfigResolve(explicit, named) == ConfigMerge(ConfigMerge(RetryDefaults, named), explicit)

\* the call is made: its configuration is resolved
ConfigResolveCall ==
    /\ cfgResolved = ConfigNone
    /\ cfgResolved' = ConfigResolve(cfgExplicit, cfgNamed)
    /\ UNCHANGED <<cfgExplicit, cfgNamed, clockVars, cfgOthers>>

\* ======================= specifications =======================

\* every component idle, sequential with its default options
InitIdle ==
    /\ ClockInit /\ NRInit /\ SeqInit /\ SeqDefaults /\ SyncInit /\ FreshInit
    /\ ThrottleInit /\ ThrottleDefaults /\ DebounceInit /\ RunInit /\ PushInit /\ CmdInit /\ ConfigIdle /\ NetIdle /\ PipeIdle /\ RunDefaults

\* mix calls with nonReentrant and with sequential, under every sequential option
InitMix ==
    /\ ClockInit /\ NRInit /\ SeqInit /\ SyncInit /\ FreshInit
    /\ ThrottleInit /\ ThrottleDefaults /\ DebounceInit /\ RunInit /\ PushInit /\ CmdInit /\ ConfigIdle /\ NetIdle /\ PipeIdle /\ RunDefaults

NextMix == NextNR \/ NextSeq \/ Tick

SpecMix == InitMix /\ [][NextMix]_vars

\* calls of optimisticSync
SpecSync == InitIdle /\ [][NextSync]_vars

\* mix calls with fresh
SpecFresh == InitIdle /\ [][NextFresh]_vars

\* mix calls with throttle and its default options
SpecThrottle == InitIdle /\ [][NextThrottle]_vars

\* mix calls with throttle, with and without removeLockOnError
InitThrottleAny ==
    /\ ClockInit /\ NRInit /\ SeqInit /\ SeqDefaults /\ SyncInit /\ FreshInit
    /\ ThrottleInit /\ DebounceInit /\ RunInit /\ PushInit /\ CmdInit /\ ConfigIdle /\ NetIdle /\ PipeIdle /\ RunDefaults

SpecThrottleAny == InitThrottleAny /\ [][NextThrottle]_vars

\* calls of optimisticSyncWithPush and pushes from the server
SpecPush == InitIdle /\ [][NextPush]_vars

\* calls of optimisticCommand
SpecCmd == InitIdle /\ [][NextCmd]_vars

\* mix calls with debounce
SpecDebounce == InitIdle /\ [][NextDebounce]_vars

\* everything idle, the configuration of the run of mix left open
InitRun ==
    /\ ClockInit /\ NRInit /\ SeqInit /\ SeqDefaults /\ SyncInit /\ FreshInit
    /\ ThrottleInit /\ ThrottleDefaults /\ DebounceInit /\ RunInit /\ PushInit /\ CmdInit /\ ConfigIdle /\ NetIdle /\ PipeIdle

\* mix calls with retry: every retry configuration; no catchError, with or
\* without a global handler that rethrows
InitRetry ==
    /\ InitRun
    /\ runVia = "mix"
    /\ runHandlers["callSite"] = "none"
    /\ runHandlers["reusable"] = "none"
    /\ runHandlers["global"] \in {"none", "rethrow"}

SpecRetry == InitRetry /\ [][NextRun]_vars

\* mix calls and preset calls without retry: every combination of handlers
InitHandlers == InitRun /\ runRetry = RetryNone

SpecHandlers == InitHandlers /\ [][NextPlain]_vars

\* mix calls with nonReentrant, sequential(maxQueueSize: 1, queueTimeout: 1)
\* or throttle, all tracked under their main key; a catchError and a
\* global handler that rethrow
InitGuarded ==
    /\ ClockInit /\ NRInit /\ SeqInit /\ SyncInit /\ FreshInit
    /\ ThrottleInit /\ ThrottleDefaults /\ DebounceInit /\ RunInit /\ PushInit /\ CmdInit /\ ConfigIdle /\ NetIdle /\ PipeIdle
    /\ seqMaxQueueSize = 1 /\ seqDropOldest = FALSE /\ seqQueueTimeout = 1
    /\ runRetry = RetryNone
    /\ runVia = "mix"
    /\ runHandlers = [h \in HandlerNames |-> IF h = "reusable" THEN "none" ELSE "rethrow"]

SpecGuarded == InitGuarded /\ [][NextGuarded]_vars

\* mix calls with sequential and its default options, every action of which
\* terminates: a running call settles sooner or later
NextSeqLive == NextSeq \/ Tick

SeqFairness == \A k \in Keys : WF_vars(\E id \in CallIds : SeqSettle(k, id) /\ UNCHANGED runVars)

SpecSeqLive == InitIdle /\ [][NextSeqLive]_vars /\ SeqFairness

\* mix calls with sequential under every option, tracked under their key; a
\* catchError and a global handler that rethrow
InitSeqTracked ==
    /\ ClockInit /\ NRInit /\ SeqInit /\ SyncInit /\ FreshInit
    /\ ThrottleInit /\ ThrottleDefaults /\ DebounceInit /\ RunInit /\ PushInit /\ CmdInit /\ ConfigIdle /\ NetIdle /\ PipeIdle
    /\ runRetry = RetryNone
    /\ runVia = "mix"
    /\ runHandlers = [h \in HandlerNames |-> IF h = "reusable" THEN "none" ELSE "rethrow"]

NextSeqTracked ==
    \/ \E k \in Keys : GuardedSeqCall(k)
    \/ \E k \in Keys, id \in CallIds, ok \in BOOLEAN : GuardedSeqSettle(k, id, ok)
    \/ Tick

SpecSeqTracked == InitSeqTracked /\ [][NextSeqTracked]_vars

\* mix calls with retry and a guard (sequential with its default options),
\* under every retry configuration, no catchError
InitGuardedRetry ==
    /\ InitRun
    /\ runVia = "mix"
    /\ runHandlers = [h \in HandlerNames |-> "none"]

SpecNRRetry == InitGuardedRetry /\ [][NextNRRetry]_vars

SpecSeqRetry == InitGuardedRetry /\ [][NextSeqRetry]_vars

\* mix calls with checkInternet, with and without retry (also unlimited);
\* no catchError
InitNet ==
    /\ ClockInit /\ NRInit /\ SeqInit /\ SeqDefaults /\ SyncInit /\ FreshInit
    /\ ThrottleInit /\ ThrottleDefaults /\ DebounceInit /\ PushInit /\ CmdInit
    /\ ConfigIdle
    /\ runRetry \in {RetryNone, RetryUnlimited,
                      [maxRetries |-> 2, initialDelay |-> 1, multiplier |-> 2, maxDelay |-> 2]}
    /\ runVia = "mix"
    /\ runHandlers = [h \in HandlerNames |-> "none"]
    /\ runs = {}
    /\ runWaiting = [k \in Keys |-> 0]
    /\ runFailed = [k \in Keys |-> NoError]
    /\ runLast = NoEvent
    /\ NetInit
    /\ PipeIdle

SpecNet == InitNet /\ [][NextNet]_vars

\* the same, where time passes and a retry that is due is made
NetFairness ==
    /\ WF_vars(RunTick)
    /\ \A id \in CallIds : WF_vars(\E r \in runs : r.id = id /\ NetRetry(r))

\* checkInternet used with retry, with the default maxRetryDelay, which is
\* below the maxDelay of the retry
InitNetRetry == InitNet /\ runRetry # RetryNone /\ netMaxRetryDelay = 1

SpecNetLive == InitNetRetry /\ [][NextNet]_vars /\ NetFairness

\* the configuration of a call is resolved
InitConfig ==
    /\ ClockInit /\ NRInit /\ SeqInit /\ SeqDefaults /\ SyncInit /\ FreshInit
    /\ ThrottleInit /\ ThrottleDefaults /\ DebounceInit /\ RunInit /\ PushInit /\ CmdInit
    /\ RunDefaults /\ ConfigInit /\ NetIdle /\ PipeIdle

SpecConfig == InitConfig /\ [][ConfigResolveCall]_vars

\* a method that uses any of the guards, each with its default options
InitPipe ==
    /\ ClockInit /\ NRInit /\ SeqInit /\ SeqDefaults /\ SyncInit /\ FreshInit
    /\ ThrottleInit /\ ThrottleDefaults /\ DebounceInit /\ RunInit /\ PushInit /\ CmdInit
    /\ ConfigIdle /\ NetIdle /\ RunDefaults /\ PipeInit

SpecPipe == InitPipe /\ [][NextPipe]_vars

\* ======================= properties =======================

\* C1: for every key at most one nonReentrant action and at most one
\* sequential action is executing; a nonReentrant call made while one is
\* executing does not execute (it is aborted), and a waiting sequential call
\* starts only in the step in which the running one settles.
C1_OneRunningPerKey ==
    [][\A k \in Keys :
          /\ Cardinality(nrExec'[k]) <= 1
          /\ Cardinality(seqExec'[k]) <= 1
          /\ nrExec[k] # {} => nrExec'[k] \subseteq nrExec[k]
          /\ (seqExec[k] # {} /\ seqStartLog'[k] # seqStartLog[k])
                => seqExec'[k] \cap seqExec[k] = {}]_vars

\* a nonReentrant call was aborted while another was running, and a queued
\* sequential call has started after the running one settled
C1_Witness ==
    /\ nrAborted # {}
    /\ \E k \in Keys : nrExec[k] # {}
    /\ \E k \in Keys : Len(seqStartLog[k]) >= 2

\* C2: the sequential calls of a key start in the order they were made
\* (call ids are given in call order), whatever was evicted or timed out.
C2_SequentialFifo ==
    \A k \in Keys : \A i, j \in 1..Len(seqStartLog[k]) :
        i < j => seqStartLog[k][i] < seqStartLog[k][j]

\* four calls on one key with a full queue of two: one waiting call was
\* evicted and the two others were taken from the queue in turn
C2_Witness ==
    \E k \in Keys :
        /\ seqMaxQueueSize = 2
        /\ seqEvicted # {}
        /\ Len(seqStartLog[k]) >= 3

\* a successful completion of a request of key k happens in this step
SyncCompletes(k) == syncLastDone'[k].n # syncLastDone[k].n

\* a call of optimisticSync on key k happens in this step
SyncCalled(k) == syncCallCount'[k] # syncCallCount[k]

\* C3: a key never has two requests in flight; a call made while the key is
\* locked sends nothing, a call that finds it unlocked takes the lock and
\* sends exactly one request.
C3_SingleInFlight ==
    [][\A k \in Keys :
          /\ Len(syncInFlight'[k]) <= 1
          /\ (SyncCalled(k) /\ k \in syncLocked)
                => /\ syncSentCount'[k] = syncSentCount[k]
                   /\ syncInFlight'[k] = syncInFlight[k]
          /\ (SyncCalled(k) /\ k \notin syncLocked)
                => /\ k \in syncLocked'
                   /\ syncSentCount'[k] = syncSentCount[k] + 1]_vars

\* two calls were made while the one request of the key is in flight
C3_Witness ==
    \E k \in Keys : syncDuring[k] >= 2 /\ Len(syncInFlight[k]) = 1 /\ syncSentCount[k] = 1

\* C4: when a request completes successfully, exactly one follow-up is sent
\* and the lock is kept if the state value differs from the value sent, and
\* none is sent and the lock is released if they are equal, however many
\* calls were made meanwhile.
C4_FollowUpIffChanged ==
    [][\A k \in Keys :
          SyncCompletes(k) =>
              IF syncValue[k] # Head(syncInFlight[k])
                THEN /\ syncSentCount'[k] = syncSentCount[k] + 1
                     /\ Len(syncInFlight'[k]) = 1
                     /\ k \in syncLocked'
                ELSE /\ syncSentCount'[k] = syncSentCount[k]
                     /\ syncInFlight'[k] = <<>>
                     /\ k \notin syncLocked']_vars

\* after an earlier follow-up, a request completed during which two calls
\* brought the value back to the value sent: no follow-up
C4_Witness ==
    \E k \in Keys :
        /\ syncLastDone[k].during >= 2
        /\ syncLastDone[k].followUp = FALSE
        /\ syncLastDone[k].followUps >= 1

\* C5: every call leaves the state value of its key equal to the value it
\* asked to apply, locked or not.
C5_AlwaysApplies ==
    [][\A k \in Keys : SyncCalled(k) => syncValue'[k] = syncLastCall'[k]]_vars

\* a call made while the key is locked has changed the state value
C5_Witness ==
    \E k \in Keys :
        /\ k \in syncLocked
        /\ syncDuring[k] >= 1
        /\ syncValue[k] = syncLastCall[k]
        /\ syncValue[k] # syncLastSent[k]

FreshCalled == freshLastCall'.id # freshLastCall.id

\* a dispatch that uses fresh settles in this step
FreshEnded == freshLastEnd'.id # freshLastEnd.id

\* C7: a call (not forced by ignoreFresh) made less than freshFor after the
\* last successful completion of its key does not run the action, a call
\* made when no such period is open runs it, and every successful completion
\* opens a fresh period of freshFor.
C7_FreshPeriod ==
    [][/\ (FreshCalled /\ ~freshLastCall'.forced) =>
             LET k == freshLastCall'.key IN
             freshLastCall'.ran <=>
                 ~(freshLastOk[k] # Null /\ now < freshLastOk[k] + FreshFor)
       /\ (FreshEnded /\ freshLastEnd'.ok) =>
             LET k == freshLastEnd'.key IN
             /\ freshMap'[k] = now + FreshFor
             /\ now' < freshMap'[k]]_vars

\* a call was skipped in a fresh period, and after the period ended a call
\* of the same key has run the action again
C7_Witness ==
    /\ freshSkipped # {}
    /\ freshLastCall.ran /\ ~freshLastCall.forced
    /\ freshLastOk[freshLastCall.key] # Null
    /\ now >= freshLastOk[freshLastCall.key] + FreshFor
    /\ \E r \in freshRuns : r.id = freshLastCall.id /\ r.prev # Null

\* C8 as stated: after a failed dispatch the entry of the key is the one of
\* the start of that dispatch.
C8_RollbackToStart ==
    [][(FreshEnded /\ ~freshLastEnd'.ok) =>
           freshMap'[freshLastEnd'.key] = freshLastEnd'.prev]_vars

\* C8 (amended): after a failed dispatch the entry of the key is the one of
\* the start of that dispatch (none if there was none), unless another call
\* of the key completed successfully meanwhile, then that newer entry is
\* kept; the failure never moves the expiry later.
C8_RollbackUnlessOvertaken ==
    [][(FreshEnded /\ ~freshLastEnd'.ok) =>
           LET k == freshLastEnd'.key IN
           /\ freshMap'[k] = IF freshLastEnd'.overtaken THEN freshMap[k] ELSE freshLastEnd'.prev
           /\ freshMap'[k] <= freshMap[k]
           /\ (freshLastEnd'.prev = Null /\ ~freshLastEnd'.overtaken) => freshMap'[k] = Null]_vars

\* a dispatch that started with an entry stored for its key has failed and
\* that earlier expiry is in place
C8_Witness ==
    /\ freshLastEnd.id # 0
    /\ ~freshLastEnd.ok
    /\ ~freshLastEnd.overtaken
    /\ freshLastEnd.prev # Null
    /\ freshMap[freshLastEnd.key] = freshLastEnd.prev

\* C9: when a dispatch fails after another call of its key completed
\* successfully since it started, the entry written by that call stays: the
\* key is fresh until freshFor after that completion.
C9_FailureKeepsNewerEntry ==
    [][(FreshEnded /\ ~freshLastEnd'.ok /\ freshLastEnd'.overtaken) =>
           LET k == freshLastEnd'.key IN
           /\ freshMap'[k] = freshLastOk[k] + FreshFor
           /\ (now < freshLastOk[k] + FreshFor) => (freshMap'[k] # Null /\ now' < freshMap'[k])]_vars

\* A (no entry at its start) failed after B succeeded, and B's period is open
C9_Witness ==
    /\ ~freshLastEnd.ok
    /\ freshLastEnd.overtaken
    /\ freshLastEnd.prev = Null
    /\ FreshIsFresh(freshLastEnd.key)

\* a call of a method that uses throttle is made in this step
ThrottleCalled == thrLastCall'.id # thrLastCall.id

\* C10: a call (not forced by ignoreThrottle) executes iff no executed call
\* of its key started less than duration before it; a call that executes
\* sets the lock to its start plus duration in the same step, and an aborted
\* call changes neither the lock nor what is executing.
C10_ThrottleWindow ==
    [][(ThrottleCalled /\ ~thrLastCall'.forced) =>
           LET k == thrLastCall'.key
               within == thrLastStart[k] # Null /\ now < thrLastStart[k] + ThrottleDuration IN
           /\ thrLastCall'.ran <=> ~within
           /\ IF within
                THEN /\ thrRuns' = thrRuns
                     /\ thrLock' = thrLock
                     /\ thrAborted' # thrAborted
                ELSE /\ thrLock'[k] = now + ThrottleDuration
                     /\ \E r \in thrRuns' \ thrRuns : r.id = thrLastCall'.id /\ r.key = k]_vars

\* a call was aborted after the first call had already finished, and a call
\* made once the duration had elapsed is executing with a new lock
C10_Witness ==
    /\ \E a \in thrAborted : ~a.running
    /\ thrLastCall.ran /\ ~thrLastCall.forced
    /\ thrLastCall.prevStart # Null
    /\ \E r \in thrRuns : r.id = thrLastCall.id
    /\ thrLock[thrLastCall.key] = now + ThrottleDuration

\* C11: with debounce, a call followed on its key by another call less than
\* duration later never executes (it is superseded); any other call executes
\* exactly once, exactly duration after it was made, and until then it is
\* the call waiting on the key: the wait starts anew with every call.
C11_DebounceLastOnly ==
    \A k \in Keys :
        LET c == dbCalls[k] IN
        \A i \in 1..Len(c) :
            LET ran == {j \in 1..Len(dbLog[k]) : dbLog[k][j].id = c[i].id} IN
            IF i < Len(c) /\ c[i + 1].at - c[i].at < DebounceDuration
              THEN /\ ran = {}
                   /\ c[i].id \in dbSuperseded
              ELSE /\ Cardinality(ran) <= 1
                   /\ c[i].id \notin dbSuperseded
                   /\ \A j \in ran : dbLog[k][j].at = c[i].at + DebounceDuration
                   /\ (now > c[i].at + DebounceDuration) => (ran # {})
                   /\ (ran = {}) => (i = Len(c) /\ dbPending[k].id = c[i].id)

\* three calls in quick succession on one key: the first two were
\* superseded and the third has executed, alone, duration after it was made
C11_Witness ==
    \E k \in Keys :
        /\ Len(dbCalls[k]) = 3
        /\ dbCalls[k][2].at > dbCalls[k][1].at
        /\ {dbCalls[k][1].id, dbCalls[k][2].id} \subseteq dbSuperseded
        /\ Len(dbLog[k]) = 1
        /\ dbLog[k][1].id = dbCalls[k][3].id
        /\ dbLog[k][1].at = dbCalls[k][3].at + DebounceDuration

\* a dispatch of mix settles in this step
RunEnded == runLast' # runLast /\ runLast'.kind = "end"

\* a retry attempt starts in this step
RunRetried == runLast' # runLast /\ runLast'.kind = "retry"

\* a dispatch of mix starts executing in this step
RunStarted == runLast' # runLast /\ runLast'.kind = "start"

\* C12: under retry with maxRetries = n, a dispatch whose action fails on
\* every attempt settles after exactly n+1 invocations, a dispatch whose
\* action first succeeds on its i-th retry (i <= n) settles after exactly
\* i+1 invocations, and a settled dispatch is not attempted again: a retry
\* only follows a failed attempt of a dispatch still in flight.
C12_RetryAttempts ==
    [][LET e == runLast'
           n == runRetry.maxRetries IN
       /\ RunEnded =>
             /\ IF e.ok THEN /\ e.invoked = e.attempt + 1
                             /\ e.attempt <= n
                             /\ Len(e.errs) = e.attempt
                ELSE /\ e.invoked = n + 1
                     /\ Len(e.errs) = n + 1
             /\ e.id \notin RunIds(runs')
       /\ RunRetried =>
             /\ \E r \in runs : r.id = e.id /\ r.phase = "backoff" /\ r.invoked = e.invoked - 1
             /\ e.invoked <= n + 1
       /\ RunStarted => e.invoked = 1 /\ e.id \notin RunIds(runs)]_vars

\* maxRetries = 3: a dispatch has failed for good on its fourth invocation,
\* and another has just succeeded on a retry
C12_Witness ==
    /\ runRetry.maxRetries = 3
    /\ \E k \in Keys : runFailed[k].by = "action" /\ runFailed[k].attempt = 3
    /\ runLast.kind = "end"
    /\ runLast.ok
    /\ runLast.attempt >= 1
    /\ runLast.invoked = runLast.attempt + 1

\* C13: the retry that follows failed attempt a (counted from 0) starts
\* min(initialDelay * multiplier^a, maxDelay) after the moment that attempt
\* finished, never more than maxDelay after it; with the default parameters
\* the delays are 350, 700 and 1400 ms and stay at 5000 ms from the fifth on.
C13_RetryDelays ==
    [][/\ RunRetried =>
             LET a == runLast'.attempt - 1
                 grown == runRetry.initialDelay * Pow(runRetry.multiplier, a) IN
             /\ runLast'.wait = IF grown <= runRetry.maxDelay THEN grown
                                ELSE runRetry.maxDelay
             /\ runLast'.wait <= runRetry.maxDelay
       /\ RetryDelay(RetryDefaults, 0) = 350
       /\ RetryDelay(RetryDefaults, 1) = 700
       /\ RetryDelay(RetryDefaults, 2) = 1400
       /\ \A a \in 0..8 : RetryDelay(RetryDefaults, a) <= 5000
       /\ RetryDelay(RetryDefaults, 4) = 5000]_vars

\* attempts that took time: the third attempt starts at time 3 after two
\* delays of 1, the second of them cut down to maxDelay
C13_Witness ==
    /\ runLast.kind = "retry"
    /\ runLast.attempt = 2
    /\ runLast.wait = 1
    /\ runRetry.maxDelay = 1
    /\ runRetry.initialDelay * runRetry.multiplier > runRetry.maxDelay
    /\ now = 3

\* C14: when a dispatch under retry fails for good, it does so on attempt
\* maxRetries, and the error given to the first handler, left after the
\* handlers and recorded for the key is the error of that last attempt, not
\* the error of an earlier one.
C14_LastErrorSurfaced ==
    [][(RunEnded /\ ~runLast'.ok) =>
           LET e == runLast' IN
           /\ e.attempt = runRetry.maxRetries
           /\ e.surfaced = ActionError(e.id, e.attempt)
           /\ e.surfaced = e.errs[Len(e.errs)]
           /\ \A i \in 1..(Len(e.errs) - 1) : e.errs[i] # e.surfaced
           /\ (e.called # <<>>) => (e.called[1].err = e.surfaced)
           /\ e.out = e.surfaced
           /\ runFailed'[e.key] = e.surfaced]_vars

\* a dispatch failed three times: the global handler got the third error,
\* and that error is recorded for the key
C14_Witness ==
    /\ runLast.kind = "end"
    /\ ~runLast.ok
    /\ Len(runLast.errs) = 3
    /\ runLast.called = <<[h |-> "global", err |-> ActionError(runLast.id, 2)]>>
    /\ runFailed[runLast.key] = ActionError(runLast.id, 2)

\* C15: when a mix call fails, the handlers that get the error are called in
\* the order catchError of the call, catchError of the MixConfig, global
\* handler; the first gets the error of the action, a later one is called
\* iff it is set and no earlier one returned normally, and it gets what the
\* one before it threw; once a handler returns normally the error is
\* suppressed and no later handler is called.
C15_HandlerOrder ==
    [][(RunEnded /\ ~runLast'.ok /\ runVia = "mix") =>
           LET e == runLast'
               c == runLast'.called
               rank == [h \in HandlerNames |->
                           IF h = "callSite" THEN 1 ELSE IF h = "reusable" THEN 2 ELSE 3]
               suppressed == \E h \in HandlerNames : runHandlers[h] = "suppress"
           IN
           /\ \A i, j \in 1..Len(c) : (i < j) => (rank[c[i].h] < rank[c[j].h])
           /\ \A h \in HandlerNames :
                 (\E i \in 1..Len(c) : c[i].h = h) <=>
                     /\ runHandlers[h] # "none"
                     /\ \A g \in HandlerNames :
                           (rank[g] < rank[h]) => (runHandlers[g] # "suppress")
           /\ (c # <<>>) => (c[1].err = e.surfaced)
           /\ \A i \in 1..(Len(c) - 1) :
                 /\ runHandlers[c[i].h] \in {"rethrow", "wrap"}
                 /\ c[i + 1].err = IF runHandlers[c[i].h] = "rethrow" THEN c[i].err
                                   ELSE [c[i].err EXCEPT !.by = c[i].h]
           /\ suppressed <=> (e.out = NoError)
           /\ suppressed => (runHandlers[c[Len(c)].h] = "suppress")]_vars

\* the catchError of the call threw an error of its own, the catchError of
\* the MixConfig got that error and returned normally, and the global
\* handler, though set, was not called
C15_Witness ==
    /\ runVia = "mix"
    /\ runHandlers["callSite"] = "wrap"
    /\ runHandlers["reusable"] = "suppress"
    /\ runHandlers["global"] = "rethrow"
    /\ runLast.kind = "end"
    /\ ~runLast.ok
    /\ runLast.called =
          <<[h |-> "callSite", err |-> ActionError(runLast.id, 0)],
            [h |-> "reusable", err |-> [ActionError(runLast.id, 0) EXCEPT !.by = "callSite"]]>>
    /\ runLast.out = NoError

\* C16: when a call through a preset fails and both the preset and the call
\* define catchError, the catchError of the preset is called first, with
\* the error of the action; if it returns normally the catchError of the
\* call is not called, and if it throws, the catchError of the call is
\* called next, with the error thrown by the preset's.
C16_PresetCatchErrorFirst ==
    [][(/\ RunEnded
        /\ ~runLast'.ok
        /\ runVia = "preset"
        /\ runHandlers["reusable"] # "none"
        /\ runHandlers["callSite"] # "none") =>
           LET e == runLast'
               c == runLast'.called IN
           /\ Len(c) >= 1
           /\ c[1] = [h |-> "reusable", err |-> e.surfaced]
           /\ IF runHandlers["reusable"] = "suppress"
                THEN /\ Len(c) = 1
                     /\ e.out = NoError
                ELSE /\ Len(c) >= 2
                     /\ c[2].h = "callSite"
                     /\ c[2].err = IF runHandlers["reusable"] = "rethrow" THEN e.surfaced
                                   ELSE [e.surfaced EXCEPT !.by = "reusable"]
           /\ \A i \in 2..Len(c) : c[i].h # "reusable"]_vars

\* the preset's catchError threw an error of its own and the catchError of
\* the call got that error
C16_Witness ==
    /\ runVia = "preset"
    /\ runHandlers["reusable"] = "wrap"
    /\ runHandlers["callSite"] = "suppress"
    /\ runLast.kind = "end"
    /\ ~runLast.ok
    /\ runLast.called =
          <<[h |-> "reusable", err |-> ActionError(runLast.id, 0)],
            [h |-> "callSite", err |-> [ActionError(runLast.id, 0) EXCEPT !.by = "reusable"]]>>

\* C17: the observer gets the start of a mix call once, when the call starts
\* executing and so before its first attempt, and not again when an attempt
\* is retried; it gets the end once, when the call settles (success, or
\* failure of the last attempt), with no error on success and the error of
\* the last attempt on failure: two calls whatever the number of attempts.
C17_ObserverTwice ==
    [][LET e == runLast' IN
       /\ \A r \in runs' : r.obs = 1
       /\ RunStarted => (e.obsStarts = 1 /\ e.obsEnds = 0 /\ e.invoked = 1)
       /\ RunRetried => (e.obsStarts = 0 /\ e.obsEnds = 0)
       /\ RunEnded =>
             /\ e.obsStarts = 1
             /\ e.obsEnds = 1
             /\ e.obsStarts + e.obsEnds = 2
             /\ e.invoked = e.attempt + 1
             /\ e.obsError = IF e.ok THEN NoError ELSE ActionError(e.id, e.attempt)]_vars

\* a call failed after three attempts: the observer was called twice, the
\* second time with the third error
C17_Witness ==
    /\ runLast.kind = "end"
    /\ ~runLast.ok
    /\ runLast.invoked = 3
    /\ runLast.obsStarts = 1
    /\ runLast.obsEnds = 1
    /\ runLast.obsError = ActionError(runLast.id, 2)

\* the calls a guard aborts in this step (key held by nonReentrant, throttle
\* lock, sequential queue full)
RunRejectedNow ==
    (nrAborted' \ nrAborted) \cup (seqRejected' \ seqRejected)
        \cup {a.id : a \in thrAborted' \ thrAborted}

\* every call that a guard has kept from executing so far
RunRejectedEver ==
    nrAborted \cup seqRejected \cup seqTimedOut \cup {a.id : a \in thrAborted}

\* C18: a call aborted by a guard (nonReentrant key held, throttle lock,
\* sequential queue full) or discarded from the queue by queueTimeout never
\* executes its action; the step that aborts it changes neither the error
\* recorded for any key nor what is loading, calls no handler and gives the
\* observer nothing; a call discarded by the timeout appears in no event and
\* no error ever stems from a call that a guard kept from executing.
C18_RejectionIsSilent ==
    [][/\ (RunRejectedNow # {}) =>
             /\ runs' = runs
             /\ runFailed' = runFailed
             /\ runWaiting' = runWaiting
             /\ runLast'.kind = "reject"
             /\ RunRejectedNow = {runLast'.id}
             /\ runLast'.invoked = 0
             /\ runLast'.called = <<>>
             /\ runLast'.surfaced = NoError
             /\ runLast'.obsStarts = 0
             /\ runLast'.obsEnds = 0
       /\ \A id \in seqTimedOut' \ seqTimedOut :
             /\ id \notin RunIds(runs')
             /\ runLast'.id # id
             /\ runLast'.began # id
             /\ \A i \in 1..Len(runLast'.called) : runLast'.called[i].err.src # id
       /\ \A id \in RunRejectedEver' :
             /\ id \notin RunIds(runs')
             /\ \A k \in Keys : runFailed'[k].src # id]_vars

\* a waiting call was discarded by the timeout, and a call was aborted by
\* nonReentrant while an error was recorded for its key: the error is still
\* recorded
C18_Witness ==
    /\ seqTimedOut # {}
    /\ runLast.kind = "reject"
    /\ runLast.id \in nrAborted
    /\ IsFailed(runLast.key)
    /\ runLast.called = <<>>

\* C19: in every state isWaiting(key) is true iff at least one dispatch with
\* that main key has started executing and has not settled; so it stays
\* true when one of several overlapping dispatches of the key settles, and
\* when a call on the key is aborted by a guard while another is running.
C19_WaitingIffInFlight ==
    \A k \in Keys :
        /\ IsWaiting(k) <=> (\E r \in runs : r.key = k)
        /\ runWaiting[k] = Cardinality({r \in runs : r.key = k})

\* two dispatches of a key overlapped, a third call on the key was aborted
\* by nonReentrant, and one of the two has just settled: the key is still
\* loading because of the other
C19_Witness ==
    /\ runLast.kind = "end"
    /\ \E r \in runs : r.key = runLast.key /\ r.id < runLast.id
    /\ nrAborted # {}
    /\ IsWaiting(runLast.key)
    /\ \E k \in Keys : ~IsWaiting(k)

\* C20 as stated: an unsuppressed failure is recorded for the key and stays
\* until a dispatch of the key starts executing, which clears it; isFailed
\* of the key is false while that dispatch runs and when it succeeds.
C20_FailedUntilNextStart ==
    [][LET e == runLast' IN
       /\ (RunEnded /\ e.out # NoError) => (runFailed'[e.key] = e.out)
       /\ \A k \in Keys :
             (runFailed[k] # NoError /\ runFailed'[k] = NoError) =>
                 (RunStarted /\ e.key = k)
       /\ RunStarted => (runFailed'[e.key] = NoError)
       /\ \A r \in runs' : runFailed'[r.key] = NoError
       /\ (RunEnded /\ e.ok) => (runFailed'[e.key] = NoError)]_vars

\* C20 (amended): an unsuppressed failure is recorded for the key and stays
\* until a dispatch of the key starts executing, which clears it; isFailed
\* of the key is false while that dispatch runs and when it succeeds, unless
\* another dispatch of the key, overlapping it, failed meanwhile.
C20_FailedUntilNextStartUnlessOverlap ==
    [][LET e == runLast' IN
       /\ (RunEnded /\ e.out # NoError) => (runFailed'[e.key] = e.out)
       /\ \A k \in Keys :
             (runFailed[k] # NoError /\ runFailed'[k] = NoError) =>
                 (RunStarted /\ e.key = k)
       /\ RunStarted => (runFailed'[e.key] = NoError)
       /\ \A r \in runs' : (~r.dirty) => (runFailed'[r.key] = NoError)
       /\ (RunEnded /\ e.ok /\ ~e.dirty) => (runFailed'[e.key] = NoError)]_vars

\* a dispatch has just started on a key for which the error of an earlier
\* dispatch was recorded: the error is cleared and the dispatch is running
C20_Witness ==
    /\ runLast.kind = "start"
    /\ runLast.cleared # NoError
    /\ runLast.cleared.src < runLast.id
    /\ ~IsFailed(runLast.key)
    /\ \E r \in runs : r.id = runLast.id /\ ~r.dirty

\* C21: with sequential and its default options, if every action terminates,
\* every call made on a key eventually executes: a call that waits is started
\* in its turn, whether the calls before it succeed or fail, and once the
\* queue is empty and the running call has settled the key is idle again.
C21_EveryCallExecutes ==
    \A k \in Keys :
        /\ \A id \in CallIds :
              (id \in SeqIds(seqQueue[k])) ~> (id \in seqExec[k] /\ id \in seqDequeued)
        /\ \A id \in CallIds :
              (id \in seqExec[k]) ~> (id \notin seqExec[k])
        /\ (~SeqIdle(k)) ~> (SeqIdle(k) /\ seqQueue[k] = <<>>)
        /\ [](seqRejected = {} /\ seqEvicted = {} /\ seqTimedOut = {})

\* three calls were made on a key while the first was running or waiting;
\* the two that waited were started in their turn and the key is idle again
C21_Witness ==
    \E k \in Keys :
        /\ Len(seqStartLog[k]) = 3
        /\ Cardinality(seqDequeued) = 2
        /\ {seqStartLog[k][2], seqStartLog[k][3]} = seqDequeued
        /\ SeqIdle(k)
        /\ seqQueue[k] = <<>>

\* every call that sequential has started, is running or keeps waiting
SeqKnown(k) ==
    seqExec[k] \cup SeqIds(seqQueue[k]) \cup {seqStartLog[k][i] : i \in 1..Len(seqStartLog[k])}

\* a call is made in this step
CallMade == nextId' # nextId

\* C22: with sequential(maxQueueSize: N) the number of waiting calls of a key
\* never exceeds N; with dropOldest=false a call is dropped exactly when it
\* arrives on a key with a running call and N waiting calls, the step that
\* drops it leaves what is running and every queue (contents and order)
\* unchanged, and a dropped call never waits, runs or has run.
C22_QueueBounded ==
    [][/\ \A k \in Keys :
             (seqMaxQueueSize # Null) => (Len(seqQueue'[k]) <= seqMaxQueueSize)
       /\ (seqRejected' # seqRejected) =>
             /\ ~seqDropOldest
             /\ seqRejected' = seqRejected \cup {nextId}
             /\ seqQueue' = seqQueue
             /\ seqExec' = seqExec
             /\ seqStartLog' = seqStartLog
             /\ \E k \in Keys : ~SeqIdle(k) /\ Len(seqQueue[k]) = seqMaxQueueSize
       /\ \A k \in Keys :
             (/\ CallMade
              /\ ~seqDropOldest
              /\ seqMaxQueueSize # Null
              /\ ~SeqIdle(k)
              /\ Len(seqQueue[k]) = seqMaxQueueSize) =>
                 (seqQueue'[k] = seqQueue[k] /\ seqExec'[k] = seqExec[k])
       /\ \A id \in seqRejected', k \in Keys : id \notin SeqKnown(k)']_vars

\* maxQueueSize 2, dropOldest false: one call runs, two wait and a fourth
\* call was dropped
C22_Witness ==
    /\ seqMaxQueueSize = 2
    /\ ~seqDropOldest
    /\ seqRejected = {4}
    /\ \E k \in Keys : seqExec[k] = {1} /\ SeqIds(seqQueue[k]) = {2, 3}

\* C23: with dropOldest=true a call that arrives when maxQueueSize calls
\* wait supersedes the oldest waiting call and waits last itself; the
\* superseded call never runs; a call never removes a running call, which
\* runs until it settles.  With maxQueueSize 1 and B, C arriving while A
\* runs, A and then C run and B does not.
C23_DropOldest ==
    [][/\ (seqEvicted' # seqEvicted) =>
             /\ seqDropOldest
             /\ CallMade
             /\ seqExec' = seqExec
             /\ \E k \in Keys :
                   /\ ~SeqIdle(k)
                   /\ Len(seqQueue[k]) = seqMaxQueueSize
                   /\ seqEvicted' = seqEvicted \cup {seqQueue[k][1].id}
                   /\ Len(seqQueue'[k]) = Len(seqQueue[k])
                   /\ seqQueue'[k][Len(seqQueue'[k])] = [id |-> nextId, enqueuedAt |-> now]
                   /\ \A i \in 1..(Len(seqQueue[k]) - 1) : seqQueue'[k][i] = seqQueue[k][i + 1]
                   /\ \A o \in Keys \ {k} : seqQueue'[o] = seqQueue[o]
       /\ CallMade => (\A k \in Keys : seqExec[k] \subseteq seqExec'[k])
       /\ \A id \in seqEvicted', k \in Keys :
             /\ id \notin seqExec'[k]
             /\ id \notin SeqIds(seqQueue'[k])
             /\ \A i \in 1..Len(seqStartLog'[k]) : seqStartLog'[k][i] # id
       /\ \A k \in Keys :
             (/\ seqDropOldest
              /\ seqMaxQueueSize = 1
              /\ seqQueueTimeout = Null
              /\ seqExec[k] = {1}
              /\ SeqIds(seqQueue[k]) = {3}
              /\ seqEvicted = {2}
              /\ seqExec'[k] # seqExec[k]) =>
                 (seqStartLog'[k] = <<1, 3>> /\ seqExec'[k] = {3})]_vars

\* maxQueueSize 2: A runs, B and C wait, D supersedes B and waits behind C
C23_Witness ==
    /\ seqDropOldest
    /\ seqMaxQueueSize = 2
    /\ seqEvicted = {2}
    /\ \E k \in Keys :
          /\ seqExec[k] = {1}
          /\ Len(seqQueue[k]) = 2
          /\ seqQueue[k][1].id = 3
          /\ seqQueue[k][2].id = 4

\* C24: when the running call of a key settles, the waiting calls at the
\* front of the queue that have waited longer than queueTimeout since they
\* were enqueued are discarded, and the first call that has not is started;
\* a discarded call never runs, appears in no event and is the origin of no
\* recorded error; without queueTimeout nothing is discarded.
C24_QueueTimeout ==
    [][/\ \A k \in Keys :
             (seqExec[k] # {} /\ seqExec'[k] # seqExec[k]) =>
                 LET q == seqQueue[k]
                     late == {i \in 1..Len(q) :
                                 seqQueueTimeout # Null
                                     /\ now > q[i].enqueuedAt + seqQueueTimeout}
                     n == Cardinality(late)
                 IN
                 /\ late = 1..n
                 /\ seqTimedOut' = seqTimedOut \cup {q[i].id : i \in late}
                 /\ IF n < Len(q)
                      THEN /\ seqExec'[k] = {q[n + 1].id}
                           /\ q[n + 1].id \in seqDequeued'
                           /\ now <= q[n + 1].enqueuedAt + seqQueueTimeout
                                  \/ seqQueueTimeout = Null
                           /\ \E r \in runs' : r.id = q[n + 1].id /\ r.phase = "running"
                           /\ seqQueue'[k] = SubSeq(q, n + 2, Len(q))
                      ELSE /\ seqExec'[k] = {}
                           /\ seqQueue'[k] = <<>>
                 /\ \A i \in late :
                       /\ runLast'.id # q[i].id
                       /\ runLast'.began # q[i].id
       /\ (seqTimedOut' # seqTimedOut) => (\E k \in Keys : seqExec'[k] # seqExec[k])
       /\ \A id \in seqTimedOut' :
             /\ \A k \in Keys : id \notin SeqKnown(k)' /\ runFailed'[k].src # id
             /\ id \notin RunIds(runs')
             /\ id \notin seqDequeued']_vars

\* A settled at time 2: B, waiting since time 0, was discarded and C, which
\* arrived later, was started in the same step
C24_Witness ==
    /\ seqQueueTimeout = 1
    /\ seqTimedOut = {2}
    /\ runLast.kind = "end"
    /\ runLast.id = 1
    /\ runLast.began = 3
    /\ 3 \in seqDequeued
    /\ \E r \in runs : r.id = 3

\* a request of optimisticSyncWithPush completes in this step
PushEnded == pshLastEnd' # pshLastEnd

\* a push arrives in this step
PushArrived == pshLastPush' # pshLastPush

\* C25: in optimisticSyncWithPush every call, and nothing else, raises the
\* local revision of its key by one; a request carries the local revision
\* and the value current when it is sent; when a request completes and the
\* last change was not from a push, a follow-up with the current value and
\* revision is sent iff the revision of the request is lower than the local
\* revision, whatever the values, and otherwise the revisions are equal and
\* the lock is released.
C25_FollowUpByRevision ==
    [][/\ \A k \in Keys : pshLocalRev'[k] \in {pshLocalRev[k], pshLocalRev[k] + 1}
       /\ (CallMade /\ ~PushArrived) =>
             (\E k \in Keys : /\ pshLocalRev'[k] = pshLocalRev[k] + 1
                              /\ \A o \in Keys \ {k} : pshLocalRev'[o] = pshLocalRev[o])
       /\ (~CallMade \/ PushArrived) => (pshLocalRev' = pshLocalRev)
       /\ \A k \in Keys : \A req \in pshInFlight'[k] \ pshInFlight[k] :
             req = [value |-> pshValue'[k], rev |-> pshLocalRev'[k]]
       /\ (PushEnded /\ pshLastEnd'.ok /\ ~pshLastWasPush[pshLastEnd'.key]) =>
             LET e == pshLastEnd'
                 k == pshLastEnd'.key IN
             IF e.rev < pshLocalRev[k]
               THEN /\ e.followUp
                    /\ pshInFlight'[k] = {[value |-> pshValue[k], rev |-> pshLocalRev[k]]}
                    /\ k \in pshLocked'
               ELSE /\ e.rev = pshLocalRev[k]
                    /\ ~e.followUp
                    /\ pshInFlight'[k] = {}
                    /\ k \notin pshLocked']_vars

\* two calls were made while the request was in flight and brought the value
\* back to the one sent: a follow-up with the same value is in flight
C25_Witness ==
    /\ pshLastEnd.ok
    /\ pshLastEnd.followUp
    /\ pshInFlight[pshLastEnd.key] =
          {[value |-> pshLastEnd.sent, rev |-> pshLastEnd.rev + 2]}
    /\ pshValue[pshLastEnd.key] = pshLastEnd.sent

\* C26: in optimisticSyncWithPush, when a request completes and the last
\* change of the value was a push accepted while it was in flight, no
\* follow-up is sent and the lock is released, even if calls made after the
\* request was sent have raised the local revision above the request's.
C26_PushSuppressesFollowUp ==
    [][(PushEnded /\ pshLastEnd'.ok /\ pshLastWasPush[pshLastEnd'.key]) =>
           LET k == pshLastEnd'.key IN
           /\ ~pshLastEnd'.followUp
           /\ pshInFlight'[k] = {}
           /\ k \notin pshLocked'
           /\ pshLocalRev'[k] = pshLocalRev[k]]_vars

\* a call was made after the request was sent, then a push was accepted: the
\* request completed and the lock is free with no follow-up in flight
C26_Witness ==
    /\ pshLastEnd.ok
    /\ ~pshLastEnd.followUp
    /\ pshLastEnd.rev < pshLocalRev[pshLastEnd.key]
    /\ pshLastWasPush[pshLastEnd.key]
    /\ pshLastPush.accepted
    /\ pshLastPush.key = pshLastEnd.key
    /\ pshLastEnd.key \notin pshLocked
    /\ pshInFlight[pshLastEnd.key] = {}

\* C27: serverPush applies the pushed value and saves its server revision
\* only if that revision is not older than the one known for the key, and
\* always if it is newer; a push with an older revision changes neither the
\* value nor the saved revision; the server revision saved for a key never
\* decreases, whatever pushes arrive and requests complete.
C27_PushMonotonic ==
    [][/\ PushArrived =>
             LET p == pshLastPush'
                 k == pshLastPush'.key IN
             /\ p.accepted => /\ p.rev >= pshServerRev[k]
                              /\ pshValue'[k] = p.value
                              /\ pshServerRev'[k] = p.rev
             /\ (p.rev > pshServerRev[k]) => p.accepted
             /\ (p.rev < pshServerRev[k]) => ~p.accepted
             /\ (~p.accepted) => /\ pshValue' = pshValue
                                 /\ pshServerRev' = pshServerRev
                                 /\ pshLastWasPush' = pshLastWasPush
       /\ \A k \in Keys : pshServerRev'[k] >= pshServerRev[k]]_vars

\* a push with an older revision and another value arrived after a newer
\* one: the value and the saved revision are those of the newer push
C27_Witness ==
    /\ pshLastPush.id # 0
    /\ ~pshLastPush.accepted
    /\ pshLastPush.rev < pshServerRev[pshLastPush.key]
    /\ pshLastPush.value # pshValue[pshLastPush.key]
    /\ pshLastWasPush[pshLastPush.key]

\* the server answers a command in this step
CmdEnded == cmdLastEnd' # cmdLastEnd

\* a call of optimisticCommand is made in this step
CmdCalled == cmdLastCall' # cmdLastCall

\* C28: when sendCommandToServer fails, optimisticCommand with the default
\* shouldRollback puts the initial value back iff the state still holds the
\* optimistic value this call applied; a value that something else has
\* written meanwhile is left as it is; on success there is no rollback (the
\* state changes only if the server response is applied).
C28_RollbackIfUnchanged ==
    [][CmdEnded =>
           LET e == cmdLastEnd' IN
           \E r \in cmdRuns :
               /\ r.id = e.id
               /\ r.phase = "sending"
               /\ e.initial = r.initial
               /\ IF e.ok
                    THEN /\ ~e.rolledBack
                         /\ cmdValue' = IF e.resp # Null THEN e.resp ELSE cmdValue
                    ELSE /\ e.rolledBack <=> (cmdValue = r.optimistic)
                         /\ IF cmdValue = r.optimistic THEN cmdValue' = r.initial
                            ELSE cmdValue' = cmdValue]_vars

\* a command failed after another command, still running, had written a third
\* value: the state keeps that value
C28_Witness ==
    /\ cmdLastEnd.id # 0
    /\ ~cmdLastEnd.ok
    /\ ~cmdLastEnd.rolledBack
    /\ cmdValue # cmdLastEnd.initial
    /\ \E r \in cmdRuns : /\ r.phase = "sending"
                          /\ r.optimistic = cmdValue
                          /\ r.initial # cmdValue
                          /\ r.initial # cmdLastEnd.initial

\* C29: a call of optimisticCommand whose non-reentrant key (nonReentrantKey
\* if given, else key) is held by a running command is aborted: it captures
\* and applies nothing and sends nothing to the server; otherwise it runs:
\* it captures the current value, applies its optimistic value and sends the
\* command.  So no two running commands hold the same non-reentrant key,
\* while calls with the same key and different nonReentrantKey run together.
C29_CommandNonReentrant ==
    [][/\ CmdCalled =>
             LET c == cmdLastCall'
                 held == IF cmdLastCall'.nrKey = NoKey THEN cmdLastCall'.key
                         ELSE cmdLastCall'.nrKey IN
             IF \E r \in cmdRuns : r.held = held
               THEN /\ ~c.ran
                    /\ cmdValue' = cmdValue
                    /\ cmdRuns' = cmdRuns
                    /\ cmdKeys' = cmdKeys
               ELSE /\ c.ran
                    /\ cmdKeys' = cmdKeys \cup {held}
                    /\ cmdRuns' = cmdRuns \cup
                          {[id |-> c.id, key |-> c.key, held |-> held, initial |-> cmdValue,
                            optimistic |-> cmdValue', phase |-> "sending"]}
       /\ \A r1, r2 \in cmdRuns' : (r1.held = r2.held) => (r1 = r2)]_vars

\* two commands with the same key and different nonReentrantKey are running,
\* and a third call with the nonReentrantKey of one of them was aborted
C29_Witness ==
    /\ \E r1, r2 \in cmdRuns : r1.key = r2.key /\ r1.held # r2.held
                                /\ r1.held \in ItemKeys /\ r2.held \in ItemKeys
    /\ ~cmdLastCall.ran
    /\ cmdLastCall.nrKey \in ItemKeys
    /\ cmdLastCall.id \notin {r.id : r \in cmdRuns}
    /\ \E r \in cmdRuns : r.key = cmdLastCall.key /\ r.held = cmdLastCall.nrKey

\* an executed throttled call completes in this step
ThrottleEnded == thrLastEnd' # thrLastEnd

\* C30: with throttle, when the method fails the lock of its key stays as
\* it is by default, so that calls within the throttle period are still
\* aborted; with removeLockOnError a failure removes the lock, so that the
\* next call of the key executes at once; a success leaves the lock in
\* place in both cases, and a lock that is in place lasts until the period
\* that began at the last start has expired.
C30_LockAfterFailure ==
    [][/\ ThrottleEnded =>
             LET e == thrLastEnd' IN
             IF ~e.ok /\ thrRemoveLockOnError
               THEN /\ thrLock'[e.key] = Null
                    /\ \A k \in Keys \ {e.key} : thrLock'[k] = thrLock[k]
               ELSE thrLock' = thrLock
       /\ (ThrottleCalled /\ ~thrLastCall'.forced) =>
             LET c == thrLastCall'
                 within == /\ thrLastStart[c.key] # Null
                           /\ now < thrLastStart[c.key] + ThrottleDuration IN
             /\ (thrLock[c.key] = Null) => c.ran
             /\ (thrLock[c.key] # Null /\ within) => ~c.ran
             /\ (~thrRemoveLockOnError /\ within) => ~c.ran
             /\ c.ran <=> (c.id \in {r.id : r \in thrRuns'})
       /\ \A k \in Keys :
             (thrLock'[k] # Null) => (thrLock'[k] = thrLastStart'[k] + ThrottleDuration)]_vars

\* with removeLockOnError, a call failed and the next call of its key, made
\* within the throttle period of the failed one, executed
C30_Witness ==
    /\ thrRemoveLockOnError
    /\ ~thrLastEnd.ok
    /\ thrLastCall.id > thrLastEnd.id
    /\ thrLastCall.key = thrLastEnd.key
    /\ ~thrLastCall.forced
    /\ thrLastCall.ran
    /\ thrLastCall.prevStart # Null
    /\ thrLastStart[thrLastCall.key] < thrLastCall.prevStart + ThrottleDuration

\* C34: in optimisticSync the server response is applied only by a
\* successful request that finds the state stable (the state value equals
\* the value sent, no follow-up is sent, the lock is released); a request
\* that was overtaken by later calls leaves the newer optimistic value as
\* it is, whatever the server returned.
C34_ResponseOnlyWhenStable ==
    [][\A k \in Keys :
          SyncCompletes(k) =>
              /\ (syncValue[k] # Head(syncInFlight[k])) => (syncValue'[k] = syncValue[k])
              /\ (syncValue'[k] # syncValue[k])
                    => /\ syncValue[k] = Head(syncInFlight[k])
                       /\ ~syncLastDone'[k].followUp
                       /\ syncSentCount'[k] = syncSentCount[k]
                       /\ k \notin syncLocked']_vars

\* a request during which calls were made found the state back at the value
\* sent, and the response of the server changed the state (onFinish has not
\* run yet)
C34_Witness ==
    \E k \in Keys :
        /\ syncLastDone[k].n >= 1
        /\ syncLastDone[k].during >= 2
        /\ ~syncLastDone[k].followUp
        /\ syncLastDone[k].sent = syncLastDone[k].current
        /\ syncValue[k] # syncLastDone[k].current
        /\ syncFinishing[k] = <<"ok">>
        /\ k \notin syncLocked

\* a request of key k fails in this step
SyncFails(k) == syncFinishing'[k] = Append(syncFinishing[k], "error")

\* C38: when a request of optimisticSync fails, the lock of the key is
\* released in that step, with onFinish(error) still to run; no follow-up is
\* sent and the state value is left as it is, even if it differs from the
\* value sent; the next call of the key takes the lock and sends a request;
\* the lock is held exactly while a request is in flight.
C38_FailureReleasesLock ==
    [][\A k \in Keys :
          /\ SyncFails(k) => /\ k \in syncLocked
                             /\ k \notin syncLocked'
                             /\ syncInFlight'[k] = <<>>
                             /\ syncSentCount'[k] = syncSentCount[k]
                             /\ syncValue'[k] = syncValue[k]
          /\ (SyncCalled(k) /\ syncInFlight[k] = <<>>)
                => /\ k \in syncLocked'
                   /\ syncSentCount'[k] = syncSentCount[k] + 1
                   /\ syncInFlight'[k] = <<syncValue'[k]>>
          /\ (k \in syncLocked') <=> (syncInFlight'[k] # <<>>)]_vars

\* a request failed while the state value differed from the value sent: the
\* lock is free and nothing is in flight; then a call sent a new request
\* before onFinish(error) ran
C38_Witness ==
    \E k \in Keys :
        /\ syncFinishing[k] = <<"error">>
        /\ syncLastDone[k].n = 0
        /\ syncCallCount[k] = 3
        /\ syncSentCount[k] = 2
        /\ k \in syncLocked
        /\ syncInFlight[k] = <<syncValue[k]>>

\* a call of a method that uses sequential is made in this step
SeqCalled == seqLastCall'.id # seqLastCall.id

\* C35: the index of the SequentialContext of a call is the number of calls
\* of its key ahead of it once it was added (the running call and the calls
\* waiting before it): a call that executes immediately has wasQueued false
\* and index 0, a call that has to wait has wasQueued true and an index of
\* at least 1.
C35_IndexCountsCallsAhead ==
    [][SeqCalled =>
           LET c == seqLastCall'
               k == seqLastCall'.key
               before == Cardinality(seqExec'[k] \ {seqLastCall'.id})
                           + Cardinality({i \in 1..Len(seqQueue'[k]) :
                                             seqQueue'[k][i].id < seqLastCall'.id}) IN
           /\ (c.id \in seqExec'[k]) => (~c.wasQueued /\ c.index = 0 /\ before = 0)
           /\ (c.id \in SeqIds(seqQueue'[k])) => (c.wasQueued /\ c.index = before)
           /\ c.wasQueued => c.index >= 1]_vars

\* a call was added behind the running call and one waiting call: index 2
C35_Witness ==
    /\ seqLastCall.wasQueued
    /\ seqLastCall.index = 2
    /\ Len(seqQueue[seqLastCall.key]) = 2
    /\ seqQueue[seqLastCall.key][2].id = seqLastCall.id
    /\ seqExec[seqLastCall.key] # {}

\* C39 as stated: a call that finds its key idle runs at once with wasQueued
\* false and index 0; a call that arrives while a call is running and the
\* queue is not full is appended with wasQueued true and index equal to the
\* number of calls waiting before it was appended.
C39_IndexIsQueueLength ==
    [][SeqCalled =>
           LET c == seqLastCall'
               k == seqLastCall'.key
               full == seqMaxQueueSize # Null /\ Len(seqQueue[k]) >= seqMaxQueueSize IN
           /\ (seqExec[k] = {}) => (~c.wasQueued /\ c.index = 0 /\ c.id \in seqExec'[k])
           /\ (seqExec[k] # {} /\ ~full)
                 => /\ c.wasQueued
                    /\ c.index = Len(seqQueue[k])
                    /\ SeqIds(seqQueue'[k]) = SeqIds(seqQueue[k]) \cup {c.id}]_vars

\* C39, amended: a call that finds its key idle runs at once with wasQueued
\* false and index 0; a call that arrives while a call is running and the
\* queue is not full is appended with wasQueued true and index equal to the
\* number of calls waiting before it was appended plus one, the running
\* call being one call ahead.
C39_IndexIsQueueLengthPlusOne ==
    [][SeqCalled =>
           LET c == seqLastCall'
               k == seqLastCall'.key
               full == seqMaxQueueSize # Null /\ Len(seqQueue[k]) >= seqMaxQueueSize IN
           /\ (seqExec[k] = {}) => (~c.wasQueued /\ c.index = 0 /\ c.id \in seqExec'[k])
           /\ (seqExec[k] # {} /\ ~full)
                 => /\ c.wasQueued
                    /\ c.index = Len(seqQueue[k]) + 1
                    /\ SeqIds(seqQueue'[k]) = SeqIds(seqQueue[k]) \cup {c.id}]_vars

\* the first call that had to wait: nothing was waiting, its index is 1
C39_Witness ==
    /\ seqLastCall.wasQueued
    /\ seqLastCall.index = 1
    /\ Len(seqQueue[seqLastCall.key]) = 1
    /\ seqQueue[seqLastCall.key][1].id = seqLastCall.id
    /\ seqDequeued = {}
    /\ seqExec[seqLastCall.key] # {}

\* C36: every field of the resolved configuration is the explicit value of
\* the call site if one is given, else the value of the config or preset if
\* one is given, else the built-in default; so a field overridden at the
\* call site leaves the other fields of the config in force.
C36_FieldByFieldResolution ==
    (cfgResolved # ConfigNone) =>
        \A f \in ConfigFields :
            /\ (cfgExplicit[f] # Unset) => (cfgResolved[f] = cfgExplicit[f])
            /\ (cfgExplicit[f] = Unset /\ cfgNamed[f] # Unset) => (cfgResolved[f] = cfgNamed[f])
            /\ (cfgExplicit[f] = Unset /\ cfgNamed[f] = Unset)
                  => (cfgResolved[f] = RetryDefaults[f])

\* retry(maxRetries: 7) at the call site over a config with maxRetries 1 and
\* multiplier 7: maxRetries is the explicit one, multiplier the one of the
\* config, the delays are the defaults
C36_Witness ==
    /\ cfgExplicit = [ConfigNone EXCEPT !["maxRetries"] = 7]
    /\ cfgNamed = [ConfigNone EXCEPT !["maxRetries"] = 1, !["multiplier"] = 7]
    /\ cfgResolved = [RetryDefaults EXCEPT !["maxRetries"] = 7, !["multiplier"] = 7]

\* C33: with sequential and retry, the running call of a key keeps the key
\* through all its attempts and the waits between them: a failed attempt
\* with a retry left and the start of a retry leave the queue and the
\* running call of every key as they are, and a waiting call starts only in
\* the step in which the running call settles for good, with success or
\* with the failure of its last attempt.
C33_QueueWaitsForRetries ==
    [][/\ \A r \in runs' : seqExec'[r.key] = {r.id}
       /\ (runLast' # runLast /\ runLast'.kind \in {"backoff", "retry"})
             => (seqExec' = seqExec /\ seqQueue' = seqQueue /\ seqStartLog' = seqStartLog)
       /\ \A k \in Keys :
             (seqStartLog'[k] # seqStartLog[k] /\ seqExec[k] # {})
                => /\ RunEnded
                   /\ runLast'.key = k
                   /\ seqExec[k] = {runLast'.id}
                   /\ runLast'.ok \/ runLast'.attempt = runRetry.maxRetries
                   /\ runLast'.invoked = runLast'.attempt + 1
                   /\ \A r \in runs : r.key = k => r.phase = "running"]_vars

\* a call waited while the running call of its key failed, was retried and
\* failed for good; it has started now
C33_Witness ==
    /\ runLast.kind = "end"
    /\ ~runLast.ok
    /\ runLast.attempt >= 2
    /\ runLast.began # 0
    /\ runLast.began \in seqDequeued
    /\ seqStartLog[runLast.key] = <<runLast.id, runLast.began>>

\* C40: with nonReentrant and retry, the key is held and isWaiting is true
\* for the whole dispatch, the waits between the attempts included: a call
\* of the key made meanwhile is aborted; when the dispatch settles, with
\* success or with the failure of its last attempt, the key is released and
\* isWaiting is false.
C40_KeyHeldAcrossRetries ==
    [][/\ \A r \in runs' : r.key \in nrKeys' /\ runWaiting'[r.key] > 0
       /\ \A k \in nrKeys' : \E r \in runs' : r.key = k
       /\ \A k \in Keys :
             (nrAborted' = nrAborted /\ nextId' # nextId /\ k \in nrKeys' \ nrKeys)
                => \A r \in runs : r.key # k
       /\ \A r \in runs :
             (nextId' # nextId /\ runLast'.key = r.key)
                => /\ nrAborted' = nrAborted \cup {nextId}
                   /\ runs' = runs
                   /\ nrKeys' = nrKeys
       /\ RunEnded
             => /\ runLast'.key \notin nrKeys'
                /\ runWaiting'[runLast'.key] = 0
                /\ runLast'.ok \/ runLast'.attempt = runRetry.maxRetries]_vars

\* a call made during the wait before a retry was aborted, and the dispatch
\* is still waiting for its retry with the key held
C40_Witness ==
    /\ runLast.kind = "reject"
    /\ runLast.id \in nrAborted
    /\ \E r \in runs : /\ r.key = runLast.key
                       /\ r.phase = "backoff"
                       /\ r.attempt >= 1
                       /\ r.key \in nrKeys
                       /\ runWaiting[r.key] = 1

\* C31: a call with checkInternet made without internet does not execute
\* the action.  By default (and without retry) it fails at once with a
\* ConnectionException, which is recorded for the key (isFailed), nothing
\* being in flight; with abortSilently nothing is thrown or recorded: the
\* dispatches, isWaiting and isFailed are what they were before the call.
\* With internet the action is executed.
C31_NoInternet ==
    [][(nextId' # nextId) =>
           LET k == runLast'.key IN
           /\ runLast'.id = nextId
           /\ netOnline => \E r \in runs' : r.id = nextId /\ r.phase = "running" /\ r.invoked = 1
           /\ ~netOnline => \A r \in runs' : r.id = nextId => (r.invoked = 0 /\ r.phase = "backoff")
           /\ (~netOnline /\ netAbortSilently)
                 => (runs' = runs /\ runFailed' = runFailed /\ runWaiting' = runWaiting)
           /\ (~netOnline /\ ~netAbortSilently /\ runRetry.maxRetries = 0)
                 => /\ \A r \in runs' : r.id # nextId
                    /\ runWaiting' = runWaiting
                    /\ runFailed'[k] = [src |-> nextId, attempt |-> 0, by |-> "connection"]
                    /\ runLast'.kind = "end"
                    /\ ~runLast'.ok
                    /\ runLast'.invoked = 0]_vars

\* a call made without internet, with the default options and no retry,
\* has failed: the key is failed with the ConnectionException of that call
C31_Witness ==
    /\ ~netAbortSilently
    /\ runLast.kind = "end"
    /\ runLast.invoked = 0
    /\ runFailed[runLast.key].by = "connection"
    /\ runFailed[runLast.key].src = runLast.id
    /\ runs = {}

\* the action of dispatch id is executing
NetInvoked(id) == \E r \in runs : r.id = id /\ r.phase = "running"

\* dispatch id, under retry.unlimited, waits for a retry that is due within
\* the time the model covers
NetPending(id) ==
    /\ runRetry.maxRetries = Null
    /\ \E r \in runs : r.id = id /\ r.phase = "backoff" /\ r.wake <= MaxTime

\* C32: with checkInternet and retry, connectivity is checked before every
\* attempt: an attempt starts only with internet; without internet the
\* attempt fails with a ConnectionException and the action is not invoked,
\* and the next attempt is due after the retry delay capped by
\* maxRetryDelay, not by maxDelay; these failures count like the others, so
\* a dispatch fails for good with attempt maxRetries, having invoked the
\* action once per failure of the action.  With retry.unlimited, once the
\* internet is back for good the action is eventually invoked: a dispatch
\* that waits for a retry leads to the internet being off or to its action
\* executing.
C32_CheckBeforeEveryAttempt ==
    /\ [][(runLast' # runLast) =>
             LET e == runLast' IN
             /\ (e.kind \in {"start", "retry"})
                   => /\ netOnline
                      /\ \E r \in runs' : r.id = e.id /\ r.phase = "running"
                                            /\ r.invoked = e.invoked
             /\ (e.kind = "retry") => \E r \in runs : r.id = e.id /\ r.invoked + 1 = e.invoked
             /\ (e.kind = "offline")
                   => /\ ~netOnline
                      /\ \A r \in runs : r.id = e.id => r.invoked = e.invoked
                      /\ \E r \in runs' :
                            /\ r.id = e.id
                            /\ r.phase = "backoff"
                            /\ r.invoked = e.invoked
                            /\ r.attempt = e.attempt
                            /\ r.errs[Len(r.errs)].by = "connection"
                            /\ r.wake - now =
                                  Min(runRetry.initialDelay * Pow(runRetry.multiplier, e.attempt),
                                      netMaxRetryDelay)
             /\ (e.kind = "end" /\ ~e.ok)
                   => /\ e.attempt = runRetry.maxRetries
                      /\ Len(e.errs) = runRetry.maxRetries + 1
                      /\ e.invoked = Cardinality({i \in 1..Len(e.errs) : e.errs[i].by = "action"})
                      /\ (e.surfaced.by = "connection") => ~netOnline]_vars
    /\ \A id \in CallIds : NetPending(id) ~> (~netOnline \/ NetInvoked(id))

\* under retry.unlimited a dispatch found no internet twice, waiting
\* maxRetryDelay = 1 each time although maxDelay is 2, and its action is
\* executing now for the first time
C32_Witness ==
    /\ runRetry = RetryUnlimited
    /\ netMaxRetryDelay = 1
    /\ runLast.kind = "retry"
    /\ runLast.invoked = 1
    /\ runLast.attempt = 2
    /\ now = 2
    /\ \E r \in runs : /\ r.id = runLast.id
                       /\ r.phase = "running"
                       /\ Len(r.errs) = 2
                       /\ \A i \in 1..2 : r.errs[i].by = "connection"

\* C37: the guards are applied in the order fresh, nonReentrant, throttle,
\* debounce, sequential: a call is stopped by fresh when the key is fresh,
\* else by nonReentrant when the key is held, else by throttle when the key
\* is locked, else it waits for the debounce timer; and a call stopped by a
\* guard leaves the state of the later guards as it was: a fresh hit or a
\* nonReentrant rejection takes no key, sets no throttle lock, touches no
\* debounce timer and enqueues or starts nothing; a throttled call touches
\* no debounce timer and enqueues nothing; a call that waits for the
\* debounce timer is not yet in the sequential queue.
C37_GuardOrder ==
    [][(pipeLast'.step = "call" /\ nextId' # nextId) =>
           LET e == pipeLast'
               k == pipeLast'.key
               hit == "fresh" \in pipeUses /\ FreshIsFresh(k)
               busy == "nonReentrant" \in pipeUses /\ NRBusy(k)
               locked == "throttle" \in pipeUses /\ ThrottleIsLocked(k)
           IN
           /\ e.id = nextId
           /\ (e.stop = "fresh") <=> hit
           /\ (e.stop = "nonReentrant") <=> (~hit /\ busy)
           /\ (e.stop = "throttle") <=> (~hit /\ ~busy /\ locked)
           /\ (e.stop = "wait") <=> (~hit /\ ~busy /\ ~locked /\ "debounce" \in pipeUses)
           /\ (e.stop \in {"fresh", "nonReentrant"})
                 => UNCHANGED <<nrKeys, thrLock, dbPending, seqExec, seqQueue, pipeRuns, freshMap>>
           /\ (e.stop = "throttle")
                 => UNCHANGED <<nrKeys, thrLock, dbPending, seqExec, seqQueue, pipeRuns>>
           /\ (e.stop = "wait") => UNCHANGED <<seqExec, seqQueue, pipeRuns>>]_vars

\* a method that uses the five guards was called while its key was fresh,
\* not held and not locked: the call was stopped by fresh and the key has
\* still no throttle lock in force, no debounce timer and nothing queued or
\* executing
C37_Witness ==
    /\ pipeUses = PipeGuards
    /\ pipeLast.step = "call"
    /\ pipeLast.stop = "fresh"
    /\ FreshIsFresh(pipeLast.key)
    /\ ~NRBusy(pipeLast.key)
    /\ ~ThrottleIsLocked(pipeLast.key)
    /\ dbPending[pipeLast.key] = DebounceNone
    /\ SeqIdle(pipeLast.key)
    /\ seqQueue[pipeLast.key] = <<>>

====
